---- MODULE Spec2Model ----
(***************************************************************************)
(* Model of the UART shell firmware: the byte ring buffer                  *)
(* (Core/Src/Utilities/ring_buffer.c), the interrupt driven transport      *)
(* (Core/Src/Drivers/uart_driver.c, uart_shell.c), the line editor         *)
(* (Core/Src/APIs/shell.c) and the command dispatcher                      *)
(* (Core/Src/APIs/cli_parser.c, with Core/Src/Drivers/led_driver.c).       *)
(*                                                                         *)
(* Bytes travelling through a ring are modelled by their sequence number   *)
(* (1, 2, 3, ...): the ring code never inspects the value of a byte, so    *)
(* numbering the bytes makes loss, reordering and duplication visible      *)
(* without restricting the behaviour.  Storage starts zeroed (0).          *)
(***************************************************************************)
EXTENDS Integers, Sequences, FiniteSets, TLC

\* ---------------------------------------------------------------------
\* Bounds of the model
\* ---------------------------------------------------------------------
MaxCap == 3        \* ring capacities 1..MaxCap in the atomic ring specification
MaxPush == 5       \* total number of pushes in the atomic ring specification
TxCap == 2         \* capacity of the TX ring (UART_DRIVER_MAX_TX_BUFFER, scaled down)
MaxSendLen == 3    \* longest input of one uart_driver_send call
MaxBytes == 4      \* total number of bytes passed to uart_driver_send
MaxFairBytes == 3  \* the same total in the specification with fairness
RxCap == 2         \* capacity of the RX ring (UART_DRIVER_MAX_RX_BUFFER, scaled down)
MaxRx == 5         \* total number of bytes received
SHELL_MAX_LENGTH == 4    \* size of the edit buffer, NUL included (128 in shell.h, scaled down)
SHELL_HISTORY_SIZE == 3  \* number of history slots (10 in shell.h, scaled down)
MaxLines == 1            \* commands stored in the history in the two-character editor specification
MaxTokens == 3           \* tokens of a command line passed to cli_parser_execute
MaxPartial == 2          \* length of the arbitrary partial inputs of the tab completion
MaxExtra == 1            \* characters a partial input has after a full command name
CLI_MAX_ARGS == 5        \* cli_parser.c

\* ---------------------------------------------------------------------
\* ring_buffer.c
\* ---------------------------------------------------------------------

\* ring_buffer_reset: head = 0, tail = 0, full = false
ring_buffer_reset(rb) == [rb EXCEPT !.head = 0, !.tail = 0, !.full = FALSE]

\* static storage of `size` bytes that nothing has written yet
zeroed(size) == [i \in 0..(size - 1) |-> 0]

\* ring_buffer_init(rb, buf, size) with buf != NULL and size >= 1: buffer =
\* buf, capacity = size, ring_buffer_reset; the bytes of buf stay as they are
ring_buffer_init(buf, size) ==
    ring_buffer_reset([buffer |-> buf, head |-> 0, tail |-> 0, capacity |-> size,
                       full |-> FALSE])

\* bool ring_buffer_is_empty: (full == false) && (head == tail)
ring_buffer_is_empty(rb) == (rb.full = FALSE) /\ (rb.head = rb.tail)

\* bool ring_buffer_is_full
ring_buffer_is_full(rb) == rb.full

\* size_t ring_buffer_get_capacity
ring_buffer_get_capacity(rb) == rb.capacity

\* ring_buffer_get_count with the capacity term of the wrapped branch left out
get_count_nowrap(rb) ==
    IF rb.full THEN rb.capacity ELSE rb.head - rb.tail

\* size_t ring_buffer_get_count
ring_buffer_get_count(rb) ==
    IF rb.full THEN rb.capacity
    ELSE IF rb.head >= rb.tail THEN rb.head - rb.tail
    ELSE rb.capacity + rb.head - rb.tail

\* The statements of ring_buffer_push, one operator each; a statement that
\* loads a field and then stores it has one operator for the store, which
\* takes the value loaded.
\* rb->buffer[rb->head] = data;
push_store(rb, data) == [rb EXCEPT !.buffer[rb.head] = data]

\* rb->head = (rb->head + 1) % rb->capacity;
push_head(rb) == [rb EXCEPT !.head = (rb.head + 1) % rb.capacity]

\* the full-branch of push without the tail advance
push_tail_keep(rb) == rb

\* rb->tail = (rb->tail + 1) % rb->capacity; with `tail` the value the
\* right-hand side loaded
push_tail_store(rb, tail) == [rb EXCEPT !.tail = (tail + 1) % rb.capacity]

\* if (rb->full) rb->tail = (rb->tail + 1) % rb->capacity;
push_tail(rb) == IF rb.full THEN push_tail_store(rb, rb.tail) ELSE rb

\* rb->full = true;
push_full_store(rb) == [rb EXCEPT !.full = TRUE]

\* if (rb->head == rb->tail) rb->full = true;
push_full(rb) == IF rb.head = rb.tail THEN push_full_store(rb) ELSE rb

\* bool ring_buffer_push, run without interruption (it always returns true)
ring_buffer_push(rb, data) == push_full(push_tail(push_head(push_store(rb, data))))

\* The statements of ring_buffer_pop after the empty check.
\* *data = rb->buffer[rb->tail]; with `tail` the index loaded
pop_read(rb, tail) == rb.buffer[tail]

\* pop that leaves the read index where it is
pop_tail_stuck(rb) == rb

\* rb->tail = (rb->tail + 1) % rb->capacity; with `tail` the value the
\* right-hand side loaded
pop_tail_store(rb, tail) == [rb EXCEPT !.tail = (tail + 1) % rb.capacity]

\* rb->tail = (rb->tail + 1) % rb->capacity;
pop_tail(rb) == pop_tail_store(rb, rb.tail)

\* rb->full = false;
pop_full(rb) == [rb EXCEPT !.full = FALSE]

\* bool ring_buffer_pop, run without interruption:
\* ok is the return value, data the byte stored through the out pointer
ring_buffer_pop(rb) ==
    IF ring_buffer_is_empty(rb)
    THEN [ok |-> FALSE, data |-> 0, rb |-> rb]
    ELSE [ok |-> TRUE, data |-> pop_read(rb, rb.tail), rb |-> pop_full(pop_tail(rb))]

\* ---------------------------------------------------------------------
\* shell.c: the line editor.  Bytes are their ASCII codes; a C string is an
\* array indexed from 0 and terminated by NUL (0).
\* ---------------------------------------------------------------------
STATE_NORMAL == "STATE_NORMAL"
STATE_ESC == "STATE_ESC"
STATE_CSI == "STATE_CSI"

BufIdx == 0..(SHELL_MAX_LENGTH - 1)
HistIdx == 0..(SHELL_HISTORY_SIZE - 1)

\* a zeroed char[SHELL_MAX_LENGTH]
ZeroBuf == [i \in BufIdx |-> 0]

\* strlen of the C string held in array a; SHELL_MAX_LENGTH when the array
\* holds no NUL (the scan would leave the array)
strlen(a) ==
    IF \E i \in BufIdx : a[i] = 0
    THEN CHOOSE i \in BufIdx : a[i] = 0 /\ \A j \in 0..(i - 1) : a[j] # 0
    ELSE SHELL_MAX_LENGTH

\* the characters of the C string held in array a, as a sequence
CStr(a) == [i \in 1..strlen(a) |-> a[i - 1]]

\* strcpy(dst, src): the characters of src and its NUL
strcpy(dst, src) ==
    [i \in BufIdx |-> IF i <= strlen(src) THEN src[i] ELSE dst[i]]

\* strncpy(dst, str, SHELL_MAX_LENGTH - 1); dst[SHELL_MAX_LENGTH - 1] = '\0'
\* for the string str given as a sequence: strncpy pads with NUL
strncpy_slot(str) ==
    [i \in BufIdx |-> IF i < Len(str) /\ i < SHELL_MAX_LENGTH - 1 THEN str[i + 1] ELSE 0]

\* shell_t after memset(shell, 0, sizeof(shell_t)) in shell_init
shell_init ==
    [buffer |-> ZeroBuf, length |-> 0, cursor_pos |-> 0,
     commands |-> [h \in HistIdx |-> ZeroBuf],
     current_index |-> 0, count |-> 0, browse_index |-> 0]

\* the edit line rx.buffer[0 .. rx.length - 1] as a sequence
Line(sh) == [i \in 1..sh.length |-> sh.buffer[i - 1]]

\* shell_add_to_history without the test for a consecutive duplicate
add_to_history_dups(sh, command) ==
    LET new_index == (sh.current_index + 1) % SHELL_HISTORY_SIZE IN
    IF Len(command) = 0 THEN sh
    ELSE [sh EXCEPT !.commands[sh.current_index] = strncpy_slot(command),
                    !.current_index = new_index,
                    !.count = IF sh.count < SHELL_HISTORY_SIZE THEN sh.count + 1 ELSE sh.count,
                    !.browse_index = new_index]

\* shell_add_to_history counting every stored line, with no cap at SHELL_HISTORY_SIZE
add_to_history_uncapped(sh, command) ==
    LET last_history_index ==
            ((sh.current_index - 1) + SHELL_HISTORY_SIZE) % SHELL_HISTORY_SIZE
        new_index == (sh.current_index + 1) % SHELL_HISTORY_SIZE
    IN
    IF Len(command) = 0 THEN sh
    ELSE IF sh.count > 0 /\ CStr(sh.commands[last_history_index]) = command THEN sh
    ELSE [sh EXCEPT !.commands[sh.current_index] = strncpy_slot(command),
                    !.current_index = new_index,
                    !.count = sh.count + 1,
                    !.browse_index = new_index]

\* shell_add_to_history for the C string `command` (a sequence)
shell_add_to_history(sh, command) ==
    LET last_history_index ==
            ((sh.current_index - 1) + SHELL_HISTORY_SIZE) % SHELL_HISTORY_SIZE
        new_index == (sh.current_index + 1) % SHELL_HISTORY_SIZE
    IN
    IF Len(command) = 0 THEN sh
    ELSE IF sh.count > 0 /\ CStr(sh.commands[last_history_index]) = command THEN sh
    ELSE [sh EXCEPT !.commands[sh.current_index] = strncpy_slot(command),
                    !.current_index = new_index,
                    !.count = IF sh.count < SHELL_HISTORY_SIZE THEN sh.count + 1 ELSE sh.count,
                    !.browse_index = new_index]

\* the trimming loop without the test for ' '
RECURSIVE trim_keep_spaces(_, _)
trim_keep_spaces(buf, len) ==
    IF len > 0 /\ buf[len - 1] \in {13, 10}
    THEN trim_keep_spaces([buf EXCEPT ![len - 1] = 0], len - 1)
    ELSE [buffer |-> buf, length |-> len]

\* the trimming loop of shell_process_command: trailing '\r', '\n' and ' '
\* are overwritten by NUL; the result is the buffer and the trimmed length
RECURSIVE trim(_, _)
trim(buf, len) ==
    IF len > 0 /\ buf[len - 1] \in {13, 10, 32}
    THEN trim([buf EXCEPT ![len - 1] = 0], len - 1)
    ELSE [buffer |-> buf, length |-> len]

\* the strtok calls of cli_parser_execute on the command line held in buf:
\* each call skips leading spaces from pos, and overwrites the space that
\* ends the token it found by NUL.  The loop makes a call per stored
\* argument and one more that ends it, CLI_MAX_ARGS + 1 at most.
RECURSIVE strtok_calls(_, _, _)
strtok_calls(buf, pos, calls) ==
    LET InBuf(i) == i < SHELL_MAX_LENGTH
        start == IF \E i \in pos..(SHELL_MAX_LENGTH - 1) : buf[i] # 32
                 THEN CHOOSE i \in pos..(SHELL_MAX_LENGTH - 1) :
                          buf[i] # 32 /\ \A j \in pos..(i - 1) : buf[j] = 32
                 ELSE SHELL_MAX_LENGTH
        stop == IF InBuf(start) /\ \E i \in start..(SHELL_MAX_LENGTH - 1) : buf[i] \in {0, 32}
                THEN CHOOSE i \in start..(SHELL_MAX_LENGTH - 1) :
                         buf[i] \in {0, 32} /\ \A j \in start..(i - 1) : buf[j] \notin {0, 32}
                ELSE SHELL_MAX_LENGTH
    IN
    IF calls = 0 \/ ~InBuf(start) \/ buf[start] = 0 \/ ~InBuf(stop) THEN buf
    ELSE IF buf[stop] = 0 THEN buf
    ELSE strtok_calls([buf EXCEPT ![stop] = 0], stop + 1, calls - 1)

\* cli_parser_execute, as far as the shell_t is concerned: the command line
\* (rx.buffer) is tokenised in place; the handlers only print or drive the LED
cli_parser_execute(sh) ==
    [sh EXCEPT !.buffer = strtok_calls(sh.buffer, 0, CLI_MAX_ARGS + 1)]

\* shell_process_command(shell, shell->rx.buffer, shell->rx.length)
shell_process_command(sh) ==
    LET t == trim(sh.buffer, sh.length)
        trimmed == [sh EXCEPT !.buffer = t.buffer]
    IN
    IF sh.length = 0 THEN sh
    ELSE IF t.length = 0 THEN trimmed
    ELSE cli_parser_execute(shell_add_to_history(trimmed, CStr(t.buffer)))

\* the line handed to cli_parser_execute by the Enter key, <<>> when none is
DispatchedLine(sh) ==
    LET t == trim([sh.buffer EXCEPT ![sh.length] = 0], sh.length) IN
    IF sh.length = 0 \/ t.length = 0 THEN <<>> ELSE CStr(t.buffer)

\* memmove(&buf[dst], &buf[src], n)
memmove(buf, dst, src, n) ==
    [i \in BufIdx |-> IF i >= dst /\ i < dst + n THEN buf[src + (i - dst)] ELSE buf[i]]

\* handle_printable_character without the memmove of the tail
printable_overwrite(sh, received_char) ==
    LET written == [sh.buffer EXCEPT ![sh.cursor_pos] = received_char] IN
    [sh EXCEPT !.buffer = [written EXCEPT ![sh.length + 1] = 0],
               !.length = sh.length + 1,
               !.cursor_pos = sh.cursor_pos + 1]

\* handle_printable_character
handle_printable_character(sh, received_char) ==
    LET moved == IF sh.cursor_pos < sh.length
                 THEN memmove(sh.buffer, sh.cursor_pos + 1, sh.cursor_pos,
                              sh.length - sh.cursor_pos)
                 ELSE sh.buffer
        written == [moved EXCEPT ![sh.cursor_pos] = received_char]
    IN
    [sh EXCEPT !.buffer = [written EXCEPT ![sh.length + 1] = 0],
               !.length = sh.length + 1,
               !.cursor_pos = sh.cursor_pos + 1]

\* handle_carriage_return without the reset of the edit state
carriage_return_keep_line(sh) ==
    LET terminated == [sh EXCEPT !.buffer[sh.length] = 0]
        done == shell_process_command(terminated)
    IN
    [done EXCEPT !.browse_index = done.current_index]

\* handle_carriage_return
handle_carriage_return(sh) ==
    LET terminated == [sh EXCEPT !.buffer[sh.length] = 0]
        done == shell_process_command(terminated)
    IN
    [done EXCEPT !.length = 0, !.cursor_pos = 0, !.browse_index = done.current_index]

\* handle_backspace that drops the last character of the line instead of
\* the one before the cursor (no memmove)
backspace_no_shift(sh) ==
    IF sh.cursor_pos = 0 THEN sh
    ELSE [sh EXCEPT !.buffer[sh.length - 1] = 0,
                    !.cursor_pos = sh.cursor_pos - 1,
                    !.length = sh.length - 1]

\* handle_backspace
handle_backspace(sh) ==
    IF sh.cursor_pos = 0 THEN sh
    ELSE LET moved == memmove(sh.buffer, sh.cursor_pos - 1, sh.cursor_pos,
                              sh.length - sh.cursor_pos)
         IN [sh EXCEPT !.buffer = [moved EXCEPT ![sh.length - 1] = 0],
                       !.cursor_pos = sh.cursor_pos - 1,
                       !.length = sh.length - 1]

\* handle_cursor_left
handle_cursor_left(sh) ==
    IF sh.cursor_pos = 0 THEN sh ELSE [sh EXCEPT !.cursor_pos = sh.cursor_pos - 1]

\* handle_cursor_right
handle_cursor_right(sh) ==
    IF sh.cursor_pos >= sh.length THEN sh ELSE [sh EXCEPT !.cursor_pos = sh.cursor_pos + 1]

\* strcpy(rx.buffer, history.commands[browse_index]); length = strlen; cursor at the end
load_history(sh) ==
    LET copied == strcpy(sh.buffer, sh.commands[sh.browse_index]) IN
    [sh EXCEPT !.buffer = copied, !.length = strlen(copied), !.cursor_pos = strlen(copied)]

\* handle_cursor_up
handle_cursor_up(sh) ==
    LET previous_history_index ==
            ((sh.browse_index - 1) + SHELL_HISTORY_SIZE) % SHELL_HISTORY_SIZE
        oldest_history_index ==
            IF sh.count < SHELL_HISTORY_SIZE THEN 0 ELSE sh.current_index
    IN
    IF sh.count = 0 THEN sh
    ELSE IF previous_history_index = oldest_history_index
            /\ sh.browse_index # sh.current_index THEN sh
    ELSE load_history([sh EXCEPT !.browse_index = previous_history_index])

\* handle_cursor_down that leaves the line as it is when it comes back to
\* current_index
cursor_down_keep_line(sh) ==
    LET cleared == [sh EXCEPT !.length = 0, !.cursor_pos = 0, !.buffer[0] = 0]
        next_index == (sh.browse_index + 1) % SHELL_HISTORY_SIZE
    IN
    IF sh.count = 0 THEN sh
    ELSE IF sh.browse_index = sh.current_index THEN cleared
    ELSE IF next_index = sh.current_index
         THEN [sh EXCEPT !.browse_index = next_index]
         ELSE load_history([sh EXCEPT !.browse_index = next_index])

\* handle_cursor_down
handle_cursor_down(sh) ==
    LET cleared == [sh EXCEPT !.length = 0, !.cursor_pos = 0, !.buffer[0] = 0]
        next_index == (sh.browse_index + 1) % SHELL_HISTORY_SIZE
    IN
    IF sh.count = 0 THEN sh
    ELSE IF sh.browse_index = sh.current_index THEN cleared
    ELSE IF next_index = sh.current_index
         THEN [cleared EXCEPT !.browse_index = next_index]
         ELSE load_history([sh EXCEPT !.browse_index = next_index])

\* the overflow test at the top of the shell_task loop, one off:
\* it lets a byte through at length SHELL_MAX_LENGTH - 1
overflow_late(sh, received_byte) ==
    sh.length > SHELL_MAX_LENGTH - 1 /\ received_byte # 13 /\ received_byte # 127

\* the overflow test with ESC let through as '\r' and DEL are
overflow_spares_escape(sh, received_byte) ==
    sh.length >= SHELL_MAX_LENGTH - 1 /\ received_byte \notin {13, 127, 27}

\* the overflow test at the top of the shell_task loop
overflow(sh, received_byte) ==
    sh.length >= SHELL_MAX_LENGTH - 1 /\ received_byte # 13 /\ received_byte # 127

\* one iteration of the while loop of shell_task for received_byte:
\* the new shell_t and parsing_state
shell_task(sh, ps, received_byte) ==
    IF overflow(sh, received_byte)
    THEN [sh |-> [sh EXCEPT !.length = 0, !.cursor_pos = 0], ps |-> ps]
    ELSE CASE ps = STATE_NORMAL ->
                IF received_byte = 27 THEN [sh |-> sh, ps |-> STATE_ESC]
                ELSE IF received_byte = 13
                     THEN [sh |-> handle_carriage_return(sh), ps |-> ps]
                ELSE IF received_byte = 127 \/ received_byte = 8
                     THEN [sh |-> handle_backspace(sh), ps |-> ps]
                ELSE IF received_byte >= 32 /\ received_byte <= 126
                     THEN [sh |-> handle_printable_character(sh, received_byte), ps |-> ps]
                ELSE [sh |-> sh, ps |-> ps]
           [] ps = STATE_ESC ->
                IF received_byte = 91 THEN [sh |-> sh, ps |-> STATE_CSI]
                ELSE [sh |-> sh, ps |-> STATE_NORMAL]
           [] ps = STATE_CSI ->
                [sh |-> CASE received_byte = 65 -> handle_cursor_up(sh)
                          [] received_byte = 66 -> handle_cursor_down(sh)
                          [] received_byte = 67 -> handle_cursor_right(sh)
                          [] received_byte = 68 -> handle_cursor_left(sh)
                          [] OTHER -> sh,
                 ps |-> STATE_NORMAL]

\* the while loop of shell_task over the received bytes `bytes`, in order
RECURSIVE shell_task_run(_, _, _)
shell_task_run(sh, ps, bytes) ==
    IF bytes = <<>> THEN [sh |-> sh, ps |-> ps]
    ELSE LET r == shell_task(sh, ps, Head(bytes)) IN
         shell_task_run(r.sh, r.ps, Tail(bytes))

\* ---------------------------------------------------------------------
\* cli_parser.c: the command dispatcher.  Command lines, tokens and names are
\* C strings, written as sequences of ASCII codes without the NUL.
\* ---------------------------------------------------------------------

\* "help"
help_name == <<104, 101, 108, 112>>

\* "clear"
clear_name == <<99, 108, 101, 97, 114>>

\* "history"
history_name == <<104, 105, 115, 116, 111, 114, 121>>

\* "version"
version_name == <<118, 101, 114, 115, 105, 111, 110>>

\* "led"
led_name == <<108, 101, 100>>

\* "on"
on_arg == <<111, 110>>

\* "off"
off_arg == <<111, 102, 102>>

\* "toggle"
toggle_arg == <<116, 111, 103, 103, 108, 101>>

\* "blink"
blink_arg == <<98, 108, 105, 110, 107>>

\* "get_state"
get_state_arg == <<103, 101, 116, 95, 115, 116, 97, 116, 101>>

\* static const char *available_commands[]
available_commands == <<help_name, clear_name, history_name, version_name, led_name>>

\* num_available_commands
num_available_commands == Len(available_commands)

\* the size of the buffer of shell_printf, char buffer[SHELL_MAX_LENGTH], in
\* bytes: the texts printed by the dispatcher have their real lengths, so the
\* buffer they are formatted into has its real size
PRINTF_BUFFER == 128

\* COMMAND_MAX_LENGTH
COMMAND_MAX_LENGTH == 10

\* the lengths NEWLINE_SEQ and TAB_SEQ can have: the two macros are defined
\* outside these sources ("\n" or "\r\n"; "\t" or spaces)
SeqLens == [nl : 1..2, tab : {1, 4}]

\* One call of shell_printf: the format text, the number of characters of
\* the format that are neither NEWLINE_SEQ, TAB_SEQ nor a conversion, the
\* numbers of NEWLINE_SEQ and TAB_SEQ in it, and the characters that its
\* conversion (%s, %ld, %lu) produces.
Fmt(text, fixed, nls, tabs, arg) ==
    [text |-> text, fixed |-> fixed, nls |-> nls, tabs |-> tabs, arg |-> arg]

\* the return value of vsnprintf for the call
vsnprintf_len(call, seq) ==
    call.fixed + call.nls * seq.nl + call.tabs * seq.tab + Len(call.arg)

\* shell_printf: the formatted text is handed to uart_driver_send when
\* 0 < len < sizeof(buffer), and dropped otherwise
shell_printf(terminal, call, seq) ==
    IF vsnprintf_len(call, seq) > 0 /\ vsnprintf_len(call, seq) < PRINTF_BUFFER
    THEN Append(terminal, call)
    ELSE terminal

\* the shell_printf calls `calls`, in order
RECURSIVE shell_printf_all(_, _, _)
shell_printf_all(terminal, calls, seq) ==
    IF calls = <<>> THEN terminal
    ELSE shell_printf_all(shell_printf(terminal, Head(calls), seq), Tail(calls), seq)

\* the help texts
help_general_text == Fmt("help_general_text", 101, 8, 5, <<>>)

help_clear_text == Fmt("help_clear_text", 58, 3, 1, <<>>)

help_history_text == Fmt("help_history_text", 61, 3, 1, <<>>)

help_version_text == Fmt("help_version_text", 70, 3, 1, <<>>)

help_led_text == Fmt("help_led_text", 223, 9, 12, <<>>)

\* TOO_MANY_ARGUMENTS_TEXT NEWLINE_SEQ
too_many_arguments == Fmt("too many arguments", 18, 1, 0, <<>>)

\* the tokens of `line`: the maximal runs of characters other than ' ',
\* as the successive strtok(.., " ") calls return them
RECURSIVE strtok_tokens(_)
strtok_tokens(line) ==
    IF line = <<>> THEN <<>>
    ELSE IF Head(line) = 32 THEN strtok_tokens(Tail(line))
    ELSE LET n == IF \E i \in 1..Len(line) : line[i] = 32
                  THEN (CHOOSE i \in 1..Len(line) :
                            line[i] = 32 /\ \A j \in 1..(i - 1) : line[j] # 32) - 1
                  ELSE Len(line)
         IN <<SubSeq(line, 1, n)>> \o strtok_tokens(SubSeq(line, n + 1, Len(line)))

\* the argv of cli_parser_execute without the test argc < CLI_MAX_ARGS
strtok_argv_all(command_line) == strtok_tokens(command_line)

\* argv[0 .. argc - 1] of cli_parser_execute: the loop stores a token while
\* argc < CLI_MAX_ARGS (argv[k] of the code is argv[k + 1] here)
strtok_argv(command_line) ==
    LET t == strtok_tokens(command_line) IN
    SubSeq(t, 1, IF Len(t) < CLI_MAX_ARGS THEN Len(t) ELSE CLI_MAX_ARGS)

\* ---------------------------------------------------------------------
\* led_driver.c: user_led without its GPIO interface
\* ---------------------------------------------------------------------

\* HAL_GetTick(), the millisecond counter, which led_driver_get_tick returns
VARIABLE tick

\* led_driver_init: memset, initialized = true, led_driver_turn_off
led_driver_init ==
    [initialized |-> TRUE, is_blinking |-> FALSE, current_state |-> FALSE,
     blink_period_ms |-> 0, next_toggle_time |-> 0]

\* led_driver_turn_on
led_driver_turn_on(led) ==
    IF ~led.initialized THEN led
    ELSE [led EXCEPT !.is_blinking = FALSE, !.current_state = TRUE]

\* led_driver_turn_off
led_driver_turn_off(led) ==
    IF ~led.initialized THEN led
    ELSE [led EXCEPT !.is_blinking = FALSE, !.current_state = FALSE]

\* led_driver_toggle
led_driver_toggle(led) ==
    IF ~led.initialized THEN led
    ELSE [led EXCEPT !.current_state = ~led.current_state]

\* led_driver_blink (the tick counter stays far below 2^32 here)
led_driver_blink(led, period_ms) ==
    IF ~led.initialized \/ period_ms = 0 THEN led
    ELSE [led EXCEPT !.blink_period_ms = period_ms, !.is_blinking = TRUE,
                     !.next_toggle_time = tick + period_ms,
                     !.current_state = TRUE]

\* ---------------------------------------------------------------------
\* cli_parser.c: number conversion and the command handlers.  A handler
\* gives the shell_printf calls it makes, in order, and the new user_led.
\* ---------------------------------------------------------------------
LONG_MAX == 2147483647

\* the value of a run of decimal digits, -1 when it is above LONG_MAX
RECURSIVE digits_value(_, _)
digits_value(digits, acc) ==
    IF digits = <<>> THEN acc
    ELSE LET d == Head(digits) - 48 IN
         IF acc > (LONG_MAX - d) \div 10 THEN -1
         ELSE digits_value(Tail(digits), acc * 10 + d)

\* strtol with endptr left at the end of the token whatever it holds
strtol_no_end(str) ==
    LET isspace == {9, 10, 11, 12, 13, 32}
        ws == IF \E i \in 1..Len(str) : str[i] \notin isspace
              THEN (CHOOSE i \in 1..Len(str) :
                        str[i] \notin isspace /\ \A j \in 1..(i - 1) : str[j] \in isspace) - 1
              ELSE Len(str)
        rest == SubSeq(str, ws + 1, Len(str))
        signed == rest # <<>> /\ rest[1] \in {43, 45}
        negative == signed /\ rest[1] = 45
        body == IF signed THEN Tail(rest) ELSE rest
        n == IF \E i \in 1..Len(body) : body[i] \notin 48..57
             THEN (CHOOSE i \in 1..Len(body) :
                       body[i] \notin 48..57 /\ \A j \in 1..(i - 1) : body[j] \in 48..57) - 1
             ELSE Len(body)
        magnitude == digits_value(SubSeq(body, 1, n), 0)
    IN
    [value |-> IF magnitude = -1 THEN (IF negative THEN (0 - LONG_MAX) - 1 ELSE LONG_MAX)
               ELSE IF negative THEN 0 - magnitude ELSE magnitude,
     endptr |-> Len(str)]

\* strtol(str, &endptr, 10): leading white space (isspace: \t \n \v \f \r
\* and ' ') is skipped, then an optional sign and the longest run of digits
\* are converted; a value above LONG_MAX gives LONG_MAX, one below LONG_MIN
\* gives LONG_MIN = -LONG_MAX - 1; endptr is the number of characters
\* consumed, 0 when there is no digit
strtol(str) ==
    LET isspace == {9, 10, 11, 12, 13, 32}
        ws == IF \E i \in 1..Len(str) : str[i] \notin isspace
              THEN (CHOOSE i \in 1..Len(str) :
                        str[i] \notin isspace /\ \A j \in 1..(i - 1) : str[j] \in isspace) - 1
              ELSE Len(str)
        rest == SubSeq(str, ws + 1, Len(str))
        signed == rest # <<>> /\ rest[1] \in {43, 45}
        negative == signed /\ rest[1] = 45
        body == IF signed THEN Tail(rest) ELSE rest
        n == IF \E i \in 1..Len(body) : body[i] \notin 48..57
             THEN (CHOOSE i \in 1..Len(body) :
                       body[i] \notin 48..57 /\ \A j \in 1..(i - 1) : body[j] \in 48..57) - 1
             ELSE Len(body)
        magnitude == digits_value(SubSeq(body, 1, n), 0)
    IN
    [value |-> IF magnitude = -1 THEN (IF negative THEN (0 - LONG_MAX) - 1 ELSE LONG_MAX)
               ELSE IF negative THEN 0 - magnitude ELSE magnitude,
     endptr |-> IF n = 0 THEN 0 ELSE ws + (IF signed THEN 1 ELSE 0) + n]

\* the characters "%ld" and "%lu" produce for n >= 0
RECURSIVE decimal(_)
decimal(n) == IF n < 10 THEN <<48 + n>> ELSE Append(decimal(n \div 10), 48 + (n % 10))

\* cli_cmd_help
cli_cmd_help(argv, led) ==
    LET argc == Len(argv)
        cmd == argv[2]
    IN
    [led |-> led,
     calls |->
        IF argc > 3 THEN <<too_many_arguments>>
        ELSE IF argc = 1 THEN <<help_general_text>>
        ELSE IF cmd = clear_name THEN <<help_clear_text>>
        ELSE IF cmd = history_name THEN <<help_history_text>>
        ELSE IF cmd = version_name THEN <<help_version_text>>
        ELSE IF cmd = help_name THEN <<>>
        ELSE IF cmd = led_name THEN <<help_led_text>>
        ELSE <<Fmt("help: unknown argument%s ", 23, 1, 0, cmd)>>]

\* cli_cmd_clear; the output of shell_clear_screen, which is not part of
\* these sources, is one item
cli_cmd_clear(argv, led) ==
    LET argc == Len(argv) IN
    [led |-> led,
     calls |->
        IF argc > 2 THEN <<too_many_arguments>>
        ELSE IF argc = 2
             THEN IF argv[2] = help_name THEN <<help_clear_text>>
                  ELSE <<Fmt("clear:  unknown argument%s ", 25, 1, 0, argv[2])>>
        ELSE <<Fmt("shell_clear_screen", 1, 0, 0, <<>>)>>]

\* cli_cmd_history; the output of shell_print_history, which is not part of
\* these sources, is one item
cli_cmd_history(argv, led) ==
    LET argc == Len(argv) IN
    [led |-> led,
     calls |->
        IF argc > 2 THEN <<too_many_arguments>>
        ELSE IF argc = 2
             THEN IF argv[2] = help_name THEN <<help_history_text>>
                  ELSE <<Fmt("history: unknown argument%s ", 26, 1, 0, argv[2])>>
        ELSE <<Fmt("shell_print_history", 1, 0, 0, <<>>)>>]

\* cli_cmd_version; TARGET_VER_MAJOR, TARGET_VER_MINOR and TARGET_VER_DATE
\* come from target_ver.h, which is not part of these sources: the version
\* line is one item
cli_cmd_version(argv, led) ==
    LET argc == Len(argv) IN
    [led |-> led,
     calls |->
        IF argc > 2 THEN <<too_many_arguments>>
        ELSE IF argc = 2
             THEN IF argv[2] = help_name THEN <<help_version_text>>
                  ELSE <<Fmt("version: unknown argument%s ", 26, 1, 0, argv[2])>>
        ELSE <<Fmt("Version: %d.%d.%s", 11, 2, 0, <<>>)>>]

\* "ON"
ON_TEXT == <<79, 78>>

\* "OFF"
OFF_TEXT == <<79, 70, 70>>

\* "Available:"
AVAILABLE_TEXT == <<65, 118, 97, 105, 108, 97, 98, 108, 101, 58>>

\* "Options:"
OPTIONS_TEXT == <<79, 112, 116, 105, 111, 110, 115, 58>>

\* cli_cmd_led
cli_cmd_led(argv, led) ==
    LET argc == Len(argv)
        subcmd == argv[2]
        period == strtol(argv[3])
        period_ms == period.value
        Only(call) == [led |-> led, calls |-> <<call>>]
    IN
    IF argc = 1
    THEN [led |-> led,
          calls |-> <<Fmt("led: missing subcommand", 23, 1, 0, <<>>), help_led_text>>]
    ELSE IF argc = 2 /\ subcmd = help_name THEN Only(help_led_text)
    ELSE IF subcmd = on_arg
         THEN IF argc > 2 THEN Only(Fmt("led on: too many arguments", 26, 1, 0, <<>>))
              ELSE [led |-> led_driver_turn_on(led),
                    calls |-> <<Fmt("LED turned on", 13, 1, 0, <<>>)>>]
    ELSE IF subcmd = off_arg
         THEN IF argc > 2 THEN Only(Fmt("led off: too many arguments", 27, 1, 0, <<>>))
              ELSE [led |-> led_driver_turn_off(led),
                    calls |-> <<Fmt("LED turned off", 14, 1, 0, <<>>)>>]
    ELSE IF subcmd = toggle_arg
         THEN IF argc > 2 THEN Only(Fmt("led toggle: too many arguments", 30, 1, 0, <<>>))
              ELSE [led |-> led_driver_toggle(led),
                    calls |-> <<Fmt("LED toggled", 11, 1, 0, <<>>)>>]
    ELSE IF subcmd = blink_arg
         THEN IF argc # 3
              THEN [led |-> led,
                    calls |-> <<Fmt("led blink: requires period in milliseconds", 42, 1, 0, <<>>),
                                Fmt("Usage: led blink <ms>", 21, 1, 0, <<>>)>>]
              ELSE IF period.endptr # Len(argv[3]) \/ period_ms <= 0 \/ period_ms > 10000
              THEN Only(Fmt("led blink: invalid period (1-10000 ms)", 38, 1, 0, <<>>))
              ELSE [led |-> led_driver_blink(led, period_ms),
                    calls |-> <<Fmt("LED blinking with %ld ms period", 28, 1, 0,
                                    decimal(period_ms))>>]
    ELSE IF subcmd = get_state_arg
         THEN IF argc > 2 THEN Only(Fmt("led get_state: too many arguments", 33, 1, 0, <<>>))
              ELSE IF led.is_blinking
              THEN Only(Fmt("LED is blinking (period: %lu ms)", 29, 1, 0,
                            decimal(led.blink_period_ms)))
              ELSE Only(Fmt("LED is %s", 7, 1, 0,
                            IF led.current_state THEN ON_TEXT ELSE OFF_TEXT))
    ELSE [led |-> led,
          calls |-> <<Fmt("led: unknown subcommand '%s'", 26, 1, 0, subcmd),
                      Fmt("Type 'led help' for usage information.", 38, 1, 0, <<>>)>>]

\* cli_parser_execute(shell, command_line) for the C string command_line:
\* the shell_printf calls made and the new user_led
cli_parser_execute_line(command_line, led) ==
    LET argv == strtok_argv(command_line)
        argc == Len(argv)
    IN
    IF argc = 0 THEN [led |-> led, calls |-> <<>>]
    ELSE IF argv[1] = help_name THEN cli_cmd_help(argv, led)
    ELSE IF argv[1] = clear_name THEN cli_cmd_clear(argv, led)
    ELSE IF argv[1] = history_name THEN cli_cmd_history(argv, led)
    ELSE IF argv[1] = version_name THEN cli_cmd_version(argv, led)
    ELSE IF argv[1] = led_name THEN cli_cmd_led(argv, led)
    ELSE [led |-> led,
          calls |-> <<Fmt("Unknown command or argument: %s", 29, 1, 0, argv[1]),
                      Fmt("Type 'help' for available commands.", 35, 1, 0, <<>>)>>]

\* character i (from 1) of the C string s: NUL from its end on
CharAt(s, i) == IF i <= Len(s) THEN s[i] ELSE 0

\* strncmp(s1, s2, n) == 0: the first n characters are equal, the comparison
\* ending at a NUL
strncmp_eq(s1, s2, n) ==
    \A i \in 1..n :
        (\A j \in 1..(i - 1) : CharAt(s1, j) # 0) => CharAt(s1, i) = CharAt(s2, i)

\* tab_completion_result_t
TAB_COMPLETION_NO_MATCH == "TAB_COMPLETION_NO_MATCH"
TAB_COMPLETION_SINGLE_MATCH == "TAB_COMPLETION_SINGLE_MATCH"
TAB_COMPLETION_HELP_SHOWN == "TAB_COMPLETION_HELP_SHOWN"
TAB_COMPLETION_MULTIPLE_MATCHES == "TAB_COMPLETION_MULTIPLE_MATCHES"

\* the first loop of the completion with the length of the input, not of
\* the command name, as the number of characters compared
exact_by_input_length(safe_input) ==
    {cmd_idx \in 1..num_available_commands :
        strncmp_eq(safe_input, available_commands[cmd_idx], Len(safe_input))}

\* the first loop of cli_parser_handle_tab_completion: the indexes cmd_idx
\* with strncmp(safe_input, available_commands[cmd_idx], strlen(name)) == 0
exact_matches(safe_input) ==
    {cmd_idx \in 1..num_available_commands :
        strncmp_eq(safe_input, available_commands[cmd_idx],
                   Len(available_commands[cmd_idx]))}

\* the indexes matched by the second and third loop, which omit the last
\* table entry
prefix_matches_short(safe_input) ==
    {cmd_idx \in 1..(num_available_commands - 1) :
        strncmp_eq(safe_input, available_commands[cmd_idx], Len(safe_input))}

\* the second and third loop: the indexes cmd_idx with
\* strncmp(safe_input, available_commands[cmd_idx], input_len) == 0
prefix_matches(safe_input) ==
    {cmd_idx \in 1..num_available_commands :
        strncmp_eq(safe_input, available_commands[cmd_idx], Len(safe_input))}

\* the elements of a set of indexes in decreasing order
RECURSIVE in_reverse(_)
in_reverse(indexes) ==
    IF indexes = {} THEN <<>>
    ELSE LET last == CHOOSE i \in indexes : \A j \in indexes : i >= j IN
         <<last>> \o in_reverse(indexes \ {last})

\* the elements of a set of indexes in increasing order
RECURSIVE in_order(_)
in_order(indexes) ==
    IF indexes = {} THEN <<>>
    ELSE LET first == CHOOSE i \in indexes : \A j \in indexes : i <= j IN
         <<first>> \o in_order(indexes \ {first})

\* the bytes of completion_buffer that cli_parser_handle_tab_completion
\* writes, counted from its start: input_len characters and a NUL at
\* completion_buffer[input_len] (strncpy with n = input_len), then for a
\* single match strlen(single_match) characters and a NUL; buffer_size is
\* read by the argument check only
completion_buffer_written(partial_input, size) ==
    LET input_len == Len(partial_input)
        matching == in_order(prefix_matches(partial_input))
        single_len == Len(available_commands[matching[1]])
    IN
    IF size = 0 THEN 0
    ELSE IF exact_matches(partial_input) = {} /\ Len(matching) = 1 /\ single_len > input_len
    THEN single_len + 1
    ELSE input_len + 1

\* sizeof(safe_input): SHELL_MAX_LENGTH of shell.h, which the editor model
\* scales down
SAFE_INPUT_SIZE == 128

\* the bytes of safe_input written after the memset: input_len characters
\* and a NUL at safe_input[input_len]
safe_input_written(partial_input) == Len(partial_input) + 1

\* cli_parser_handle_tab_completion(shell, partial_input, completion_buffer,
\* buffer_size) with non-null pointers: the result code, the C string left
\* in completion_buffer, the command lines passed to cli_parser_execute, the
\* shell_printf calls made (those of cli_parser_execute included) and the
\* new user_led
cli_parser_handle_tab_completion(partial_input, completion_buffer, buffer_size, led) ==
    LET safe_input == partial_input
        input_len == Len(partial_input)
        exact == exact_matches(safe_input)
        cmd_idx == CHOOSE i \in exact : \A j \in exact : i <= j
        help_line == available_commands[cmd_idx] \o <<32>> \o help_name
        helped == cli_parser_execute_line(help_line, led)
        matching == in_order(prefix_matches(safe_input))
        matches == Len(matching)
        single_match == available_commands[matching[matches]]
    IN
    IF buffer_size = 0
    THEN [result |-> TAB_COMPLETION_NO_MATCH, completion_buffer |-> completion_buffer,
          executed |-> <<>>, calls |-> <<>>, led |-> led]
    ELSE IF exact # {}
    THEN [result |-> TAB_COMPLETION_HELP_SHOWN, completion_buffer |-> partial_input,
          executed |-> <<help_line>>,
          calls |-> <<Fmt("", 0, 1, 0, <<>>)>> \o helped.calls, led |-> helped.led]
    ELSE IF matches = 1
    THEN [result |-> TAB_COMPLETION_SINGLE_MATCH, completion_buffer |-> single_match,
          executed |-> <<>>, calls |-> <<>>, led |-> led]
    ELSE IF matches > 1
    THEN [result |-> TAB_COMPLETION_MULTIPLE_MATCHES, completion_buffer |-> partial_input,
          executed |-> <<>>,
          calls |-> <<Fmt("%s ", 1, 1, 0,
                          IF input_len = 0 THEN AVAILABLE_TEXT ELSE OPTIONS_TEXT)>>
                    \o [k \in 1..matches |->
                           Fmt("%s ", 1, 0, 0, available_commands[matching[k]])]
                    \o <<Fmt("", 0, 2, 0, <<>>)>>,
          led |-> led]
    ELSE [result |-> TAB_COMPLETION_NO_MATCH, completion_buffer |-> partial_input,
          executed |-> <<>>, calls |-> <<>>, led |-> led]

\* ---------------------------------------------------------------------
\* uart_driver.c: the functions as the caller sees them, with a null
\* pointer ("NULL") possible for every pointer argument.  A function gives
\* the new uart_driver_t, the new state of the peripheral, its return value
\* as an integer (false 0, true 1, and 0 for a function without a return
\* value), whether it called a HAL function and whether it read
\* or wrote through a null pointer or divided by zero (fault).  The HAL is
\* not part of these sources: HAL_UART_AbortTransmit and
\* HAL_UART_AbortReceive end the running transfers, HAL_UART_DeInit and
\* HAL_UART_Init succeed or fail as their caller is told (deinit_ok,
\* init_ok), HAL_UART_Receive_IT arms a one-byte receive and
\* HAL_UART_Transmit_IT starts a one-byte transmit.
\* ---------------------------------------------------------------------

\* a ring_buffer_t in zeroed static storage (buffer == NULL: no storage to
\* index): ring_buffer_init has not run
ring_buffer_zero ==
    [buffer |-> <<>>, head |-> 0, tail |-> 0, capacity |-> 0, full |-> FALSE]

\* a uart_driver_t in zeroed static storage: uart_driver_init has not run or
\* has returned at its argument check
uart_driver_zero ==
    [huart |-> "NULL", rx_callback |-> "NULL", tx_busy |-> FALSE,
     ring_buffer_rx |-> ring_buffer_zero, ring_buffer_tx |-> ring_buffer_zero]

\* uart_driver->rx_buffer and uart_driver->tx_buffer, the `size` bytes a ring
\* of the driver stores in: zeroed static storage until the ring initialised
\* on it has written it
storage(ring, size) == IF ring.capacity = 0 THEN zeroed(size) ELSE ring.buffer

\* the outcome of a call
Outcome(p, h, ret, called, faulted) ==
    [port |-> p, hal |-> h, ret |-> ret, called |-> called, fault |-> faulted]

\* ring_buffer_push on a ring that is not NULL writes rb->buffer[rb->head]
\* and computes (rb->head + 1) % rb->capacity without a check of either
push_faults(ring) == DOMAIN ring.buffer = {} \/ ring.capacity = 0

\* ring_buffer_pop passes its checks only on a ring that is not empty
pop_faults(ring) == ~ring_buffer_is_empty(ring) /\ push_faults(ring)

\* the return value of each ring function called with rb == NULL, and of
\* ring_buffer_init called with buf == NULL or size == 0
ring_buffer_null(function) ==
    CASE function = "ring_buffer_init" -> 0
      [] function = "ring_buffer_push" -> 0
      [] function = "ring_buffer_pop" -> 0
      [] function = "ring_buffer_is_empty" -> 0
      [] function = "ring_buffer_is_full" -> 0
      [] function = "ring_buffer_reset" -> 0
      [] function = "ring_buffer_get_capacity" -> 0
      [] function = "ring_buffer_get_count" -> 0

\* uart_driver_init(uart_driver, huart, rx_callback)
uart_driver_init(drv, p, h, huart, rx_callback) ==
    IF huart = "NULL" \/ rx_callback = "NULL" THEN Outcome(p, h, 0, FALSE, FALSE)
    ELSE IF drv = "NULL" THEN Outcome(p, h, 0, FALSE, TRUE)
    ELSE Outcome([huart |-> huart, rx_callback |-> rx_callback, tx_busy |-> FALSE,
                  ring_buffer_rx |-> ring_buffer_init(storage(p.ring_buffer_rx, RxCap), RxCap),
                  ring_buffer_tx |-> ring_buffer_init(storage(p.ring_buffer_tx, TxCap), TxCap)],
                 [h EXCEPT !.rx_armed = TRUE], 0, TRUE, FALSE)

\* no uart_driver_init call is in progress
NoInit == [pc |-> "idle", pending |-> {}]

\* the fields ring_buffer_reset stores to: head = 0, tail = 0, full = false
ResetStores == {"head", "tail", "full"}

\* uart_driver_init is past its stores to huart, rx_callback and tx_busy:
\* ring_buffer_init of the RX ring is next, the stores of its
\* ring_buffer_reset pending
init_entered == [pc |-> "rx", pending |-> ResetStores]

\* ring_buffer_init(rb, buf, size) up to one store of its ring_buffer_reset:
\* rb->buffer = buf and rb->capacity = size come first and store what the
\* fields of a ring in use hold
reset_store(ring, size, field) ==
    LET rb == [ring EXCEPT !.buffer = storage(ring, size), !.capacity = size] IN
    CASE field = "head" -> [rb EXCEPT !.head = 0]
      [] field = "tail" -> [rb EXCEPT !.tail = 0]
      [] field = "full" -> [rb EXCEPT !.full = FALSE]

\* one step of the uart_driver_init call f: the store to `field`, one of
\* the pending stores of the ring_buffer_reset of the RX ring and then of
\* the TX ring (the three stores of a reset are taken in any order: the
\* callbacks read and write the same fields without exclusion, and
\* ring_buffer_reset is inlined into ring_buffer_init where the compiler
\* orders them), and HAL_UART_Receive_IT at last.  The outcome holds the
\* call as it goes on (f, NoInit once it has returned), the transport and
\* the peripheral.
init_step(f, p, h, field) ==
    LET left == f.pending \ {field}
        after(next) == IF left = {} THEN next ELSE [f EXCEPT !.pending = left]
    IN
    CASE f.pc = "rx" ->
             [f |-> after([pc |-> "tx", pending |-> ResetStores]),
              port |-> [p EXCEPT !.ring_buffer_rx = reset_store(@, RxCap, field)],
              hal |-> h, called |-> FALSE]
      [] f.pc = "tx" ->
             [f |-> after([pc |-> "receive", pending |-> {}]),
              port |-> [p EXCEPT !.ring_buffer_tx = reset_store(@, TxCap, field)],
              hal |-> h, called |-> FALSE]
      [] f.pc = "receive" ->
             [f |-> NoInit, port |-> p, hal |-> [h EXCEPT !.rx_armed = TRUE], called |-> TRUE]

\* the next store of the uart_driver_init call f in the order of the
\* statements
next_store(f) ==
    IF "head" \in f.pending THEN "head" ELSE IF "tail" \in f.pending THEN "tail" ELSE "full"

\* the steps of the uart_driver_init call f up to its return, no interrupt
\* coming in between (the order of the stores makes no difference then)
RECURSIVE init_run(_, _, _)
init_run(f, p, h) ==
    LET out == init_step(f, p, h, next_store(f)) IN
    IF out.f = NoInit THEN out ELSE init_run(out.f, out.port, out.hal)

\* the push loop of uart_driver_send for `length` bytes of value 1
RECURSIVE send_pushes(_, _)
send_pushes(ring, length) ==
    IF length = 0 THEN ring ELSE send_pushes(ring_buffer_push(ring, 1), length - 1)

\* uart_driver_send(uart_driver, data, length), run without interruption
uart_driver_send(drv, p, h, data, length) ==
    IF data = "NULL" \/ length = 0 THEN Outcome(p, h, 0, FALSE, FALSE)
    ELSE IF drv = "NULL" \/ push_faults(p.ring_buffer_tx)
    THEN Outcome(p, h, 0, FALSE, TRUE)
    ELSE LET pushed == send_pushes(p.ring_buffer_tx, length)
             first == ring_buffer_pop(pushed)
         IN
         IF p.tx_busy
         THEN Outcome([p EXCEPT !.ring_buffer_tx = pushed], h, length, FALSE, FALSE)
         ELSE IF first.ok
         THEN Outcome([p EXCEPT !.ring_buffer_tx = first.rb, !.tx_busy = TRUE],
                      [h EXCEPT !.tx_active = TRUE], length, TRUE, FALSE)
         ELSE Outcome([p EXCEPT !.ring_buffer_tx = pushed], h, 0, FALSE, FALSE)

\* no uart_driver_send call is in progress
NoSend ==
    [pc |-> "idle", call |-> [op |-> "none"], idx |-> 0, head |-> 0, tail |-> 0,
     full |-> FALSE, push |-> [full_first |-> FALSE, tail_kept |-> FALSE],
     pop |-> [tail_first |-> FALSE, index_kept |-> FALSE, full_first |-> FALSE]]

\* uart_driver_send is entered with arguments that pass its check, on a
\* transport whose TX ring has storage: the first ring_buffer_push is next,
\* its loads and stores in the order `push`
send_entered(call, push) == [NoSend EXCEPT !.pc = "push_store", !.call = call, !.push = push]

\* ring_buffer_push returns to the loop of uart_driver_send: the next byte,
\* or the tx_busy test after the last
send_pushed(f) ==
    IF f.idx + 1 < f.call.length
    THEN [f EXCEPT !.idx = f.idx + 1, !.tail = 0, !.pc = "push_store"]
    ELSE [f EXCEPT !.idx = f.idx + 1, !.tail = 0, !.pc = "check_busy"]

\* one step of the uart_driver_send call f, from one load or store of a
\* field of the TX ring or of tx_busy to the next, the bytes sent being 1:
\* the ring_buffer_push of the loop (the steps of SendStep, in the order
\* f.push), the tx_busy test, the ring_buffer_pop of `first` (the steps of
\* PollPop, in the order `pop`, kept in f.pop), tx_busy = true and
\* HAL_UART_Transmit_IT.  The outcome holds the call as it goes on (f,
\* NoSend once it has returned), the transport, the peripheral and the
\* return value.
send_step(f, p, h, pop) ==
    LET ring == p.ring_buffer_tx
        at(pc) == [f EXCEPT !.pc = pc]
        on(frame, r) ==
            [f |-> frame, port |-> [p EXCEPT !.ring_buffer_tx = r], hal |-> h, ret |-> 0,
             called |-> FALSE]
        return(ret) == [f |-> NoSend, port |-> p, hal |-> h, ret |-> ret, called |-> FALSE]
        read == IF f.pop.index_kept THEN "pop_read" ELSE "pop_index"
    IN
    CASE f.pc = "push_store" ->
             on(at(IF f.push.full_first THEN "test_full" ELSE "push_head"),
                push_store(ring, 1))
      [] f.pc = "push_head" ->
             on([f EXCEPT !.full = FALSE,
                          !.pc = IF ~f.push.full_first THEN "test_full"
                                 ELSE IF f.full THEN "load_tail" ELSE "test_wrap"],
                push_head(ring))
      [] f.pc = "test_full" ->
             IF ~f.push.full_first
             THEN on(at(IF ring.full THEN "load_tail" ELSE "test_wrap"), ring)
             ELSE on([f EXCEPT !.full = ring.full, !.pc = "push_head"], ring)
      [] f.pc = "load_tail" -> on([f EXCEPT !.tail = ring.tail, !.pc = "store_tail"], ring)
      [] f.pc = "store_tail" ->
             LET stored == push_tail_store(ring, f.tail) IN
             on(IF ~f.push.tail_kept THEN at("test_wrap")
                ELSE IF stored.head = stored.tail THEN at("store_full")
                ELSE send_pushed(f),
                stored)
      [] f.pc = "test_wrap" ->
             on(IF ring.head = ring.tail THEN at("store_full") ELSE send_pushed(f), ring)
      [] f.pc = "store_full" -> on(send_pushed(f), push_full_store(ring))
      [] f.pc = "check_busy" ->
             IF p.tx_busy THEN return(f.call.length)
             ELSE on([f EXCEPT !.pop = pop, !.pc = "pop_check"], ring)
      [] f.pc = "pop_check" -> on(at(IF ring.full THEN "pop_index" ELSE "test_empty"), ring)
      [] f.pc = "test_empty" ->
             IF f.pop.tail_first
             THEN on([f EXCEPT !.tail = ring.tail, !.pc = "cmp_head"], ring)
             ELSE on([f EXCEPT !.head = ring.head, !.pc = "cmp_tail"], ring)
      [] f.pc = "cmp_tail" ->
             IF f.head = ring.tail THEN return(0)
             ELSE on([f EXCEPT !.tail = ring.tail, !.pc = read], ring)
      [] f.pc = "cmp_head" -> IF ring.head = f.tail THEN return(0) ELSE on(at(read), ring)
      [] f.pc = "pop_index" -> on([f EXCEPT !.tail = ring.tail, !.pc = "pop_read"], ring)
      [] f.pc = "pop_read" -> on(at("reload_tail"), ring)
      [] f.pc = "reload_tail" ->
             on([f EXCEPT !.tail = ring.tail,
                          !.pc = IF f.pop.full_first THEN "pop_full" ELSE "pop_tail"],
                ring)
      [] f.pc = "pop_tail" ->
             on(at(IF f.pop.full_first THEN "set_busy" ELSE "pop_full"),
                pop_tail_store(ring, f.tail))
      [] f.pc = "pop_full" ->
             on(at(IF f.pop.full_first THEN "pop_tail" ELSE "set_busy"), pop_full(ring))
      [] f.pc = "set_busy" ->
             [f |-> at("transmit"), port |-> [p EXCEPT !.tx_busy = TRUE], hal |-> h,
              ret |-> 0, called |-> FALSE]
      [] f.pc = "transmit" ->
             [f |-> NoSend, port |-> p, hal |-> [h EXCEPT !.tx_active = TRUE],
              ret |-> f.call.length, called |-> TRUE]

\* the steps of the uart_driver_send call f up to its return, no interrupt
\* coming in between (the order of the loads and stores makes no difference
\* then)
RECURSIVE send_run(_, _, _)
send_run(f, p, h) ==
    LET out == send_step(f, p, h, f.pop) IN
    IF out.f = NoSend THEN out ELSE send_run(out.f, out.port, out.hal)

\* uart_driver_rx_it_callback(uart_driver), the received byte being 1
uart_driver_rx_it_callback(drv, p, h) ==
    IF drv = "NULL" \/ p.huart = "NULL" THEN Outcome(p, h, 0, FALSE, FALSE)
    ELSE IF push_faults(p.ring_buffer_rx) THEN Outcome(p, h, 0, FALSE, TRUE)
    ELSE Outcome([p EXCEPT !.ring_buffer_rx = ring_buffer_push(p.ring_buffer_rx, 1)],
                 [h EXCEPT !.rx_armed = TRUE], 0, TRUE, FALSE)

\* uart_driver_tx_it_callback(uart_driver), with the ring and the flag
tx_it_callback(drv, p, h) ==
    IF drv = "NULL" \/ p.huart = "NULL" THEN Outcome(p, h, 0, FALSE, FALSE)
    ELSE IF pop_faults(p.ring_buffer_tx) THEN Outcome(p, h, 0, FALSE, TRUE)
    ELSE LET next == ring_buffer_pop(p.ring_buffer_tx) IN
         IF next.ok
         THEN Outcome([p EXCEPT !.ring_buffer_tx = next.rb],
                      [h EXCEPT !.tx_active = TRUE], 0, TRUE, FALSE)
         ELSE Outcome([p EXCEPT !.tx_busy = FALSE], h, 0, FALSE, FALSE)

\* uart_driver_reconfigure(uart_driver, baud_rate)
uart_driver_reconfigure(drv, p, h, baud_rate, deinit_ok, init_ok) ==
    LET aborted == [h EXCEPT !.tx_active = FALSE, !.rx_armed = FALSE]
        deinit == [aborted EXCEPT !.initialised = FALSE]
        rated == [deinit EXCEPT !.BaudRate = baud_rate]
        init == [rated EXCEPT !.initialised = TRUE]
    IN
    IF drv = "NULL" \/ p.huart = "NULL" \/ baud_rate = 0
    THEN Outcome(p, h, 0, FALSE, FALSE)
    ELSE IF ~deinit_ok THEN Outcome(p, aborted, 0, TRUE, FALSE)
    ELSE IF ~init_ok THEN Outcome(p, rated, 0, TRUE, FALSE)
    ELSE Outcome(p, [init EXCEPT !.rx_armed = TRUE], 1, TRUE, FALSE)

\* ---------------------------------------------------------------------
\* uart_driver_poll and uart_shell_poll: packet assembly.  st is the static
\* state of the function together with the packets it has passed to
\* rx_callback: packet (packet[0 .. packet_len - 1]) and delivered.
\* ---------------------------------------------------------------------
PacketCap == 4           \* size of packet (UART_DRIVER_MAX_RX_BUFFER, 256, scaled down)
UART_RX_TIMEOUT_MS == 2  \* 100 in uart_driver.c, scaled down
MaxTick == 3             \* largest value of HAL_GetTick()
MaxSeen == 4             \* total number of bytes received

\* the last two bytes of packet are "\r\n" and packet_len > 2
ends_packet(p) == Len(p) > 2 /\ p[Len(p) - 1] = 13 /\ p[Len(p)] = 10

\* the body of the pop loop of uart_driver_poll for one popped byte
uart_driver_poll_byte(st, byte) ==
    IF Len(st.packet) < PacketCap
    THEN LET p == Append(st.packet, byte) IN
         IF ends_packet(p)
         THEN [packet |-> <<>>, delivered |-> Append(st.delivered, p)]
         ELSE [st EXCEPT !.packet = p]
    ELSE [st EXCEPT !.packet = <<>>]

\* the body of the pop loop of uart_shell_poll for the byte popped into
\* packet[packet_len]
uart_shell_poll_byte(st, byte) ==
    LET p == Append(st.packet, byte) IN
    IF Len(p) >= PacketCap THEN [st EXCEPT !.packet = <<>>]
    ELSE IF ends_packet(p)
    THEN [packet |-> <<>>, delivered |-> Append(st.delivered, p)]
    ELSE [st EXCEPT !.packet = p]

\* one loop body of the variant
poll_byte(variant, st, byte) ==
    IF variant = "uart_driver" THEN uart_driver_poll_byte(st, byte)
    ELSE uart_shell_poll_byte(st, byte)

\* uart_driver_poll, the test before the loop: the bytes accumulated are
\* dropped when (packet_len > 0U) && ((HAL_GetTick() - last_rx_tick) >
\* UART_RX_TIMEOUT_MS), HAL_GetTick() giving `now` (now >= last: the 32-bit
\* counter does not wrap within MaxTick)
poll_timeout(st, last, now) ==
    IF Len(st.packet) > 0 /\ (now - last) > UART_RX_TIMEOUT_MS
    THEN [st EXCEPT !.packet = <<>>]
    ELSE st

\* ---------------------------------------------------------------------
\* shell.c: the bytes the line editor passes to uart_driver_send, and the
\* terminal they reach.  The output of Enter and of the overflow branch
\* (NEWLINE_SEQ, messages, the prompt) stands as the one byte '\n': it ends
\* with the prompt, after which the row is blank.
\* ---------------------------------------------------------------------

\* n times the byte b
Repeat(b, n) == [i \in 1..n |-> b]

\* uart_driver_send(&driver, &buffer[from], n)
SendBuffer(sh, from, n) == [i \in 1..n |-> sh.buffer[from + i - 1]]

\* shell_clear_line: cursor_pos "\b", length " ", length "\b"
shell_clear_line(sh) ==
    Repeat(8, sh.cursor_pos) \o Repeat(32, sh.length) \o Repeat(8, sh.length)

\* shell_redraw_line: the buffer, then length - cursor_pos "\b"
shell_redraw_line(sh) ==
    SendBuffer(sh, 0, sh.length) \o Repeat(8, sh.length - sh.cursor_pos)

\* the echo of handle_printable_character, sent before cursor_pos++
printable_sent(sh, received_char) ==
    LET after == handle_printable_character(sh, received_char)
        chars_from_cursor_to_end == after.length - sh.cursor_pos
    IN
    IF sh.cursor_pos = after.length - 1 THEN <<received_char>>
    ELSE SendBuffer(after, sh.cursor_pos, chars_from_cursor_to_end)
             \o Repeat(8, chars_from_cursor_to_end - 1)

\* the display update of handle_backspace without the " \b" that blanks the
\* cell of the last character
backspace_sent_no_erase(sh) ==
    LET after == handle_backspace(sh) IN
    IF sh.cursor_pos = 0 THEN <<>>
    ELSE <<8>> \o SendBuffer(after, after.cursor_pos, after.length - after.cursor_pos)
             \o Repeat(8, after.length - after.cursor_pos)

\* the display update of handle_backspace: "\b", the shifted characters,
\* " \b", then length - cursor_pos "\b"
backspace_sent(sh) ==
    LET after == handle_backspace(sh) IN
    IF sh.cursor_pos = 0 THEN <<>>
    ELSE <<8>> \o SendBuffer(after, after.cursor_pos, after.length - after.cursor_pos)
             \o <<32, 8>> \o Repeat(8, after.length - after.cursor_pos)

\* handle_cursor_left: "\b"
cursor_left_sent(sh) == IF sh.cursor_pos = 0 THEN <<>> ELSE <<8>>

\* handle_cursor_right: the character under the cursor
cursor_right_sent(sh) ==
    IF sh.cursor_pos >= sh.length THEN <<>> ELSE <<sh.buffer[sh.cursor_pos]>>

\* handle_cursor_up: shell_clear_line on the old line, shell_redraw_line on
\* the loaded one
cursor_up_sent(sh) ==
    LET previous_history_index ==
            ((sh.browse_index - 1) + SHELL_HISTORY_SIZE) % SHELL_HISTORY_SIZE
        oldest_history_index ==
            IF sh.count < SHELL_HISTORY_SIZE THEN 0 ELSE sh.current_index
    IN
    IF sh.count = 0 THEN <<>>
    ELSE IF previous_history_index = oldest_history_index
            /\ sh.browse_index # sh.current_index THEN <<>>
    ELSE shell_clear_line(sh) \o shell_redraw_line(handle_cursor_up(sh))

\* handle_cursor_down: shell_clear_line, and shell_redraw_line when an
\* entry is loaded
cursor_down_sent(sh) ==
    LET next_index == (sh.browse_index + 1) % SHELL_HISTORY_SIZE IN
    IF sh.count = 0 THEN <<>>
    ELSE IF sh.browse_index = sh.current_index THEN shell_clear_line(sh)
    ELSE IF next_index = sh.current_index THEN shell_clear_line(sh)
    ELSE shell_clear_line(sh) \o shell_redraw_line(handle_cursor_down(sh))

\* the bytes one iteration of the shell_task loop sends for received_byte;
\* Enter on an empty line sends nothing (shell_process_command returns at
\* length == 0)
shell_task_sent(sh, ps, received_byte) ==
    IF overflow(sh, received_byte) THEN <<10>>
    ELSE CASE ps = STATE_NORMAL ->
                IF received_byte = 27 THEN <<>>
                ELSE IF received_byte = 13
                     THEN (IF sh.length = 0 THEN <<>> ELSE <<10>>)
                ELSE IF received_byte = 127 \/ received_byte = 8 THEN backspace_sent(sh)
                ELSE IF received_byte >= 32 /\ received_byte <= 126
                     THEN printable_sent(sh, received_byte)
                ELSE <<>>
           [] ps = STATE_ESC -> <<>>
           [] ps = STATE_CSI ->
                CASE received_byte = 65 -> cursor_up_sent(sh)
                  [] received_byte = 66 -> cursor_down_sent(sh)
                  [] received_byte = 67 -> cursor_right_sent(sh)
                  [] received_byte = 68 -> cursor_left_sent(sh)
                  [] OTHER -> <<>>

\* the terminal row after the prompt: the cells 0 .. SHELL_MAX_LENGTH - 1,
\* blank (' '), and the cursor column
blank_row == [row |-> [i \in BufIdx |-> 32], col |-> 0]

\* the terminal after one byte: '\b' moves the cursor left, a printable
\* byte writes the cell under the cursor and moves right, '\n' stands for
\* the output that ends with a new prompt
terminal_byte(scr, byte) ==
    IF byte = 8 THEN [scr EXCEPT !.col = IF scr.col > 0 THEN scr.col - 1 ELSE 0]
    ELSE IF byte = 10 THEN blank_row
    ELSE IF byte >= 32 /\ byte <= 126
    THEN [row |-> IF scr.col \in BufIdx THEN [scr.row EXCEPT ![scr.col] = byte]
                  ELSE scr.row,
          col |-> scr.col + 1]
    ELSE scr

\* the terminal after the bytes `bytes`, each of which reaches it
RECURSIVE terminal_bytes(_, _)
terminal_bytes(scr, bytes) ==
    IF bytes = <<>> THEN scr
    ELSE terminal_bytes(terminal_byte(scr, Head(bytes)), Tail(bytes))

\* ---------------------------------------------------------------------
\* State
\* ---------------------------------------------------------------------
VARIABLES
    rb,          \* ring_buffer_t under test in the atomic ring specification
    npush,       \* number of ring_buffer_push calls made on rb (byte k is the k-th push)
    popped,      \* bytes returned by the successful ring_buffer_pop calls on rb
    fifo,        \* reference queue: bytes pushed and neither popped nor overwritten
    overflowed,  \* a push was made while rb was full
    mixed,       \* a push was made after a pop call
    lastPop,     \* outcome of the latest ring_buffer_pop call: "none", "ok", "empty"
    \* transmit side of uart_driver_t
    tx,          \* ring_buffer_tx
    tx_busy,     \* tx_busy
    inflight,    \* a HAL_UART_Transmit_IT transfer is running; its completion interrupt is due
    handed,      \* the bytes at pData when HAL_UART_Transmit_IT was called, in order
    wire,        \* the byte the peripheral read through pData for the latest transfer
                 \* (-1: no transfer yet)
    t_pc,        \* position of the task inside uart_driver_send ("idle": not in send)
    s_data,      \* data argument of the current or latest send call
    s_idx,       \* data_idx + 1 of the push loop
    s_ret,       \* return value of the latest send call (-1 while it runs)
    nextId,      \* number of the next byte passed to send
    s_base,      \* Len(handed) when the current or latest send was called
    s_idle,      \* the current or latest send was called on an idle transport
    s_tail,      \* rb->tail as loaded by the push in progress (ring_buffer.c:32)
    s_full,      \* rb->full as loaded by the push in progress before it stored head
    t_build,     \* the order of the loads and stores of ring_buffer_push (PushOrders)
    \* receive side of uart_driver_t
    rx,          \* ring_buffer_rx
    r_pc,        \* position of the task inside ring_buffer_pop on rx ("idle": not in pop)
    r_data,      \* byte read by the pop in progress
    r_popped,    \* bytes returned by the completed pops on rx
    rx_n,        \* number of bytes received so far (byte k is the k-th arrival)
    unread,      \* reference queue: arrived bytes not yet read by the task nor
                 \* discarded by a push that found RxCap unread bytes
    r_expect,    \* head of the reference queue when the pop in progress read its byte
    r_missed,    \* unread bytes in the reference queue when the latest pop reported
                 \* empty although bytes were unread when it was called
    r_head,      \* rb->head as loaded by the empty check of the pop in progress
    r_tail,      \* rb->tail as loaded by the statement of the pop in progress
    r_had,       \* length of the reference queue when the pop in progress was called
    r_build,     \* the order of the loads and stores of ring_buffer_pop (PopOrders)
    \* line editor (shell_t without the driver)
    shell,         \* rx (buffer, length, cursor_pos) and history (commands, current_index, count, browse_index)
    parsing_state, \* static parsing_state of shell_task
    ref_hist,      \* reference history: the committed lines, consecutive duplicates
                   \* dropped, at most the last SHELL_HISTORY_SIZE of them
    ref_wrapped,   \* more than SHELL_HISTORY_SIZE lines were appended to ref_hist
    nav,           \* pos = j >= 1: the line should show the j-th most recent command,
                   \* after j consecutive Up presses on a fresh line (down FALSE) or
                   \* after j + 1 of them and one Down (down TRUE); pos = 0: fresh
                   \* line; pos = -1: any other key sequence,
    screen,        \* the terminal row after the prompt (row) and the cursor column (col)
    \* command dispatcher
    cli_op,            \* the call made: "none", "execute", "tab", "overrun" or "killed"
    command_line,      \* command_line of cli_parser_execute, partial_input of the completion
    completion_buffer, \* the caller's completion_buffer, as a C string
    tab_result,        \* return value of cli_parser_handle_tab_completion ("none": no call)
    executed,          \* command lines the completion passed to cli_parser_execute
    terminal,          \* the texts shell_printf handed to uart_driver_send, in order
    user_led,          \* user_led (is_blinking, current_state, blink_period_ms,
                       \* next_toggle_time, initialized)
    led_pc,            \* position of the main loop inside led_driver_task
    seq_len,           \* lengths of NEWLINE_SEQ and TAB_SEQ
    buffer_size,       \* buffer_size of the last completion call (0: no call)
    \* transport life cycle (uart_driver_t and the peripheral behind huart)
    port,        \* uart_driver_t: huart, rx_callback, tx_busy, ring_buffer_rx, ring_buffer_tx
    hal,         \* the peripheral: Init.BaudRate, initialised, a one-byte receive is
                 \* armed (rx_armed), a one-byte transmit is running (tx_active)
    port_call,   \* the latest call and its arguments
    port_ret,    \* its return value (false 0, true 1; 0 for a function without one)
    hw_called,   \* it called a HAL function
    port_init,   \* the uart_driver_init call in progress: its position (pc) and the
                 \* stores of the ring_buffer_reset it is in that are still to come
    port_send,   \* the uart_driver_send call in progress: its position (pc), its
                 \* arguments (call), data_idx (idx), what ring_buffer_push and
                 \* ring_buffer_pop hold in registers (head, tail, full) and the
                 \* order of their loads and stores (push, pop)
    fault,       \* it read or wrote through a null pointer or divided by zero
    \* packet assembly of the poll functions
    pl_variant,   \* "uart_driver" or "uart_shell"
    pl_pc,        \* position of the task inside the poll function: "idle" (not in
                  \* it), "loop" (at or inside the ring_buffer_pop of the loop
                  \* condition), "body" (at the loop body); "off" where the pops
                  \* alone are followed
    packet,       \* static packet[0 .. packet_len - 1]
    last_rx_tick, \* static last_rx_tick
    delivered     \* the packets passed to rx_callback, in order

ringVars == <<rb, npush, popped, fifo, overflowed, mixed, lastPop>>

txVars == <<tx, tx_busy, inflight, handed, wire, t_pc, s_data, s_idx, s_ret, nextId, s_base, s_idle,
           s_tail, s_full, t_build>>

rxVars == <<rx, r_pc, r_data, r_popped, rx_n, unread, r_expect, r_missed, r_head, r_tail,
           r_had, r_build>>

shellVars == <<shell, parsing_state, ref_hist, ref_wrapped, nav, screen>>

cliVars == <<cli_op, command_line, completion_buffer, tab_result, executed, terminal,
            user_led, led_pc, seq_len, buffer_size>>

portVars == <<port, hal, port_call, port_ret, hw_called, port_send, port_init, fault>>

pollVars == <<pl_variant, pl_pc, packet, last_rx_tick, tick, delivered>>

hwVars == <<portVars, pollVars>>

vars == <<ringVars, txVars, rxVars, shellVars, cliVars, hwVars>>

\* the bytes k+1 .. k+n in order
Run(k, n) == [i \in 1..n |-> k + i]

\* The ring fields are plain data shared with the interrupt, so the order in
\* which the task's loads and stores reach memory, and whether a field is
\* loaded again or kept in a register, is the compiler's.  Each choice the
\* language leaves open is taken either way, and a build is one combination.
\*   ring_buffer_push
\*     full_first: rb->full (line 31) is loaded before rb->head (line 29) is
\*       stored, not after it.
\*     tail_kept: after the tail advance of line 32 the test of line 35
\*       compares head with the tail just stored, not with tail loaded again.
\*     gcc 12 -O0, -O1, -Og: neither; -Os: full_first; -O2, -O3: both.
\*   ring_buffer_pop
\*     tail_first: rb->head == rb->tail (line 56) loads tail before head.
\*     index_kept: the index of line 46 is the tail loaded for that test
\*       (when the test was made), not tail loaded again.
\*     full_first: rb->full (line 48) is stored before rb->tail (line 47).
\*     gcc 12 -O0: none; -O1, -Og: tail_first; -Os: tail_first and
\*     full_first; -O2, -O3: all three.
PushOrders == [full_first : BOOLEAN, tail_kept : BOOLEAN]

PopOrders == [tail_first : BOOLEAN, index_kept : BOOLEAN, full_first : BOOLEAN]

\* the loads and stores in the order of the statements
PushInOrder == [full_first |-> FALSE, tail_kept |-> FALSE]

PopInOrder == [tail_first |-> FALSE, index_kept |-> FALSE, full_first |-> FALSE]

\* Values of the variables a specification does not use.
RingOff ==
    /\ rb = ring_buffer_init(zeroed(1), 1)
    /\ npush = 0
    /\ popped = <<>>
    /\ fifo = <<>>
    /\ overflowed = FALSE
    /\ mixed = FALSE
    /\ lastPop = "none"

TxOff ==
    /\ tx = ring_buffer_init(zeroed(1), 1)
    /\ tx_busy = FALSE
    /\ inflight = FALSE
    /\ handed = <<>>
    /\ wire = -1
    /\ t_pc = "idle"
    /\ s_data = <<>>
    /\ s_idx = 0
    /\ s_ret = -1
    /\ nextId = 1
    /\ s_base = 0
    /\ s_idle = FALSE
    /\ s_tail = 0
    /\ s_full = FALSE
    /\ t_build = PushInOrder

RxOff ==
    /\ rx = ring_buffer_init(zeroed(1), 1)
    /\ r_pc = "idle"
    /\ r_data = 0
    /\ r_popped = <<>>
    /\ rx_n = 0
    /\ unread = <<>>
    /\ r_expect = 0
    /\ r_missed = 0
    /\ r_head = 0
    /\ r_tail = 0
    /\ r_had = 0
    /\ r_build = PopInOrder

ShellOff ==
    /\ shell = shell_init
    /\ parsing_state = STATE_NORMAL
    /\ ref_hist = <<>>
    /\ ref_wrapped = FALSE
    /\ nav = [pos |-> -1, down |-> FALSE]
    /\ screen = blank_row

CliOff ==
    /\ cli_op = "none"
    /\ command_line = <<>>
    /\ completion_buffer = <<>>
    /\ tab_result = "none"
    /\ executed = <<>>
    /\ terminal = <<>>
    /\ user_led = led_driver_init
    /\ led_pc = "idle"
    /\ seq_len = [nl |-> 2, tab |-> 1]
    /\ buffer_size = 0

PortOff ==
    /\ port = uart_driver_zero
    /\ hal = [BaudRate |-> 115200, initialised |-> TRUE, rx_armed |-> FALSE,
              tx_active |-> FALSE]
    /\ port_call = [op |-> "none"]
    /\ port_ret = 0
    /\ hw_called = FALSE
    /\ port_send = NoSend
    /\ port_init = NoInit
    /\ fault = FALSE

PollOff ==
    /\ pl_variant = "uart_driver"
    /\ pl_pc = "off"
    /\ packet = <<>>
    /\ last_rx_tick = 0
    /\ tick = 0
    /\ delivered = <<>>

HwOff == PortOff /\ PollOff

\* ---------------------------------------------------------------------
\* Atomic ring specification: ring_buffer_init, then pushes and pops
\* ---------------------------------------------------------------------
RingInit ==
    /\ \E size \in 1..MaxCap : rb = ring_buffer_init(zeroed(size), size)
    /\ npush = 0
    /\ popped = <<>>
    /\ fifo = <<>>
    /\ overflowed = FALSE
    /\ mixed = FALSE
    /\ lastPop = "none"
    /\ TxOff
    /\ RxOff
    /\ ShellOff
    /\ CliOff
    /\ HwOff

\* ring_buffer_push(&rb, byte number npush + 1)
RingPush ==
    /\ npush < MaxPush
    /\ rb' = ring_buffer_push(rb, npush + 1)
    /\ npush' = npush + 1
    /\ fifo' = IF Len(fifo) = rb.capacity
               THEN Append(Tail(fifo), npush + 1)
               ELSE Append(fifo, npush + 1)
    /\ overflowed' = (overflowed \/ ring_buffer_is_full(rb))
    /\ mixed' = (mixed \/ lastPop # "none")
    /\ UNCHANGED <<popped, lastPop, txVars, rxVars, shellVars, cliVars, hwVars>>

\* ring_buffer_pop(&rb, &data)
RingPop ==
    LET r == ring_buffer_pop(rb) IN
    /\ rb' = r.rb
    /\ popped' = IF r.ok THEN Append(popped, r.data) ELSE popped
    /\ fifo' = IF fifo # <<>> THEN Tail(fifo) ELSE fifo
    /\ lastPop' = IF r.ok THEN "ok" ELSE "empty"
    /\ UNCHANGED <<npush, overflowed, mixed, txVars, rxVars, shellVars, cliVars, hwVars>>

RingNext == RingPush \/ RingPop

SpecRing == RingInit /\ [][RingNext]_vars

\* ---------------------------------------------------------------------
\* Claims about the atomic ring
\* ---------------------------------------------------------------------

\* the bytes returned by at most n successive ring_buffer_pop calls on r
RECURSIVE Drain(_, _)
Drain(r, n) ==
    LET p == ring_buffer_pop(r) IN
    IF n > 0 /\ p.ok THEN <<p.data>> \o Drain(p.rb, n - 1) ELSE <<>>

\* the bytes the ring would return if it were drained now (a ring never
\* holds more than capacity bytes)
RingContents(r) == Drain(r, r.capacity)

\* C1: after ring_buffer_init and any sequence of pushes and pops,
\* ring_buffer_get_count never exceeds the capacity N and equals the number
\* of bytes pushed and neither popped nor overwritten, which is N when full
\* is set and (head - tail) mod N otherwise.
Thm_C1 ==
    /\ ring_buffer_get_count(rb) <= rb.capacity
    /\ ring_buffer_get_count(rb) = Len(fifo)
    /\ ring_buffer_get_count(rb) =
           (IF rb.full THEN rb.capacity ELSE (rb.head - rb.tail) % rb.capacity)

\* C1 witness: bytes were overwritten and popped, and the stored bytes wrap
\* around the end of the storage (head behind tail).
Wit_C1 ==
    /\ overflowed
    /\ popped # <<>>
    /\ ~rb.full
    /\ rb.head < rb.tail

\* C2, the state part: as long as no push was made while the ring was full,
\* the successful pops returned the pushed bytes in push order and the ring
\* holds the rest.
FifoNoOverflow ==
    ~overflowed =>
        /\ popped = Run(0, Len(popped))
        /\ RingContents(rb) = Run(Len(popped), npush - Len(popped))

\* C2, the step part: a pop on an empty ring (a step that pushes nothing,
\* taken with the ring empty) returns nothing and leaves the ring unchanged.
EmptyPopFrame ==
    (ring_buffer_is_empty(rb) /\ npush' = npush) =>
        /\ rb' = rb
        /\ popped' = popped
        /\ lastPop' = "empty"

\* C2: with no push made while the ring is full, the successful pops return
\* exactly the pushed bytes in push order (FIFO), and a pop on an empty ring
\* returns nothing and leaves head, tail and full unchanged.
Thm_C2 == []FifoNoOverflow /\ [][EmptyPopFrame]_vars

\* C2 witness: more bytes than the capacity went through a ring of capacity
\* at least 2 without overflow, and the latest pop found the ring empty.
Wit_C2 ==
    /\ ~overflowed
    /\ rb.capacity >= 2
    /\ Len(popped) > rb.capacity
    /\ lastPop = "empty"

\* C3: from an empty ring of capacity N, k > N pushes with no pop in between
\* followed by pops until empty return exactly the last N bytes pushed, in
\* push order.
Thm_C3 ==
    (~mixed /\ npush > rb.capacity) =>
        /\ Len(popped) <= rb.capacity
        /\ popped = SubSeq(Run(npush - rb.capacity, rb.capacity), 1, Len(popped))
        /\ (ring_buffer_is_empty(rb) => Len(popped) = rb.capacity)

\* C3 witness: a ring of capacity at least 2 was overfilled by at least two
\* bytes and then drained.
Wit_C3 ==
    /\ ~mixed
    /\ rb.capacity >= 2
    /\ npush >= rb.capacity + 2
    /\ ring_buffer_is_empty(rb)
    /\ Len(popped) = rb.capacity

\* ---------------------------------------------------------------------
\* Transmit side: uart_driver_send in task context, stepped by the loads and
\* stores of the fields the interrupt writes, preempted by the TX complete
\* interrupt
\* (HAL_UART_TxCpltCallback -> uart_driver_tx_it_callback).
\* uart_shell.c holds the same two functions on the singleton uart_shell.
\* "Handed to the hardware" is the byte at the address passed to
\* HAL_UART_Transmit_IT when it is called (handed); the byte that the
\* peripheral reads through that address afterwards is kept apart (wire).
\* ---------------------------------------------------------------------

\* uart_driver_init: tx_busy = false, ring_buffer_init of the TX ring
TxInit ==
    /\ tx = ring_buffer_init(zeroed(TxCap), TxCap)
    /\ tx_busy = FALSE
    /\ inflight = FALSE
    /\ handed = <<>>
    /\ wire = -1
    /\ t_pc = "idle"
    /\ s_data = <<>>
    /\ s_idx = 0
    /\ s_ret = -1
    /\ nextId = 1
    /\ s_base = 0
    /\ s_idle = FALSE
    /\ s_tail = 0
    /\ s_full = FALSE
    /\ t_build \in PushOrders
    /\ RingOff
    /\ RxOff
    /\ ShellOff
    /\ CliOff
    /\ HwOff

\* the transport is idle: TX ring empty, tx_busy false, nothing being transmitted
TxIdle == ring_buffer_is_empty(tx) /\ ~tx_busy /\ ~inflight

\* uart_driver_send entry: (data == NULL) || (length == 0) returns 0,
\* otherwise the push loop starts.  len = 0 stands for both rejected inputs.
SendCall ==
    /\ t_pc = "idle"
    /\ \E len \in 0..MaxSendLen :
        /\ nextId + len - 1 <= MaxBytes
        /\ s_data' = Run(nextId - 1, len)
        /\ nextId' = nextId + len
        /\ s_base' = Len(handed)
        /\ s_idle' = TxIdle
        /\ IF len = 0
           THEN /\ s_ret' = 0
                /\ UNCHANGED <<t_pc, s_idx>>
           ELSE /\ s_ret' = -1
                /\ s_idx' = 1
                /\ t_pc' = "push_store"
    /\ UNCHANGED <<tx, tx_busy, inflight, handed, wire, s_tail, s_full, t_build, ringVars, rxVars, shellVars, cliVars,
                   hwVars>>

\* ring_buffer_push(&ring_buffer_tx, data[data_idx]): buffer[head] = data
\* (the interrupt never writes head: loading it and storing the slot is one step)
SendPushStore ==
    /\ t_pc = "push_store"
    /\ tx' = push_store(tx, s_data[s_idx])
    /\ t_pc' = IF t_build.full_first THEN "test_full" ELSE "push_head"
    /\ UNCHANGED <<tx_busy, inflight, handed, wire, s_data, s_idx, s_ret, nextId,
                   s_base, s_idle, s_tail, s_full, t_build, ringVars, rxVars, shellVars,
                   cliVars, hwVars>>

\* ... head = (head + 1) % capacity; with full_first full was loaded before
\* and its branch is taken now
SendPushHead ==
    /\ t_pc = "push_head"
    /\ tx' = push_head(tx)
    /\ t_pc' = IF ~t_build.full_first THEN "test_full"
               ELSE IF s_full THEN "load_tail" ELSE "test_wrap"
    /\ s_full' = FALSE
    /\ UNCHANGED <<tx_busy, inflight, handed, wire, s_data, s_idx, s_ret, nextId,
                   s_base, s_idle, s_tail, t_build, ringVars, rxVars, shellVars, cliVars,
                   hwVars>>

\* ... if (rb->full): the load of full; the branch follows, or with
\* full_first the store of head comes first
SendPushTestFull ==
    /\ t_pc = "test_full"
    /\ IF ~t_build.full_first
       THEN /\ t_pc' = IF tx.full THEN "load_tail" ELSE "test_wrap"
            /\ s_full' = s_full
       ELSE /\ t_pc' = "push_head"
            /\ s_full' = tx.full
    /\ UNCHANGED <<tx, tx_busy, inflight, handed, wire, s_data, s_idx, s_ret, nextId,
                   s_base, s_idle, s_tail, t_build, ringVars, rxVars, shellVars, cliVars,
                   hwVars>>

\* ... rb->tail = (rb->tail + 1) % rb->capacity: the load of tail
SendPushLoadTail ==
    /\ t_pc = "load_tail"
    /\ s_tail' = tx.tail
    /\ t_pc' = "store_tail"
    /\ UNCHANGED <<tx, tx_busy, inflight, handed, wire, s_data, s_idx, s_ret, nextId,
                   s_base, s_idle, s_full, t_build, ringVars, rxVars, shellVars, cliVars,
                   hwVars>>

\* the push returns: the next iteration of the loop in uart_driver_send, or
\* its tx_busy test after the last byte
PushReturns ==
    IF s_idx < Len(s_data)
    THEN s_idx' = s_idx + 1 /\ t_pc' = "push_store"
    ELSE s_idx' = s_idx /\ t_pc' = "check_busy"

\* ... rb->tail = (rb->tail + 1) % rb->capacity: the store, of the value
\* computed from the tail loaded before.  With tail_kept the test of line 35
\* follows at once, on the head and the tail held in registers; otherwise
\* tail is loaded again for it (SendPushTestWrap).
SendPushTail ==
    /\ t_pc = "store_tail"
    /\ tx' = push_tail_store(tx, s_tail)
    /\ IF ~t_build.tail_kept
       THEN t_pc' = "test_wrap" /\ s_idx' = s_idx
       ELSE IF tx'.head = tx'.tail
            THEN t_pc' = "store_full" /\ s_idx' = s_idx
            ELSE PushReturns
    /\ UNCHANGED <<tx_busy, inflight, handed, wire, s_data, s_ret, nextId,
                   s_base, s_idle, s_tail, s_full, t_build, ringVars, rxVars, shellVars,
                   cliVars, hwVars>>

\* ... if (rb->head == rb->tail): the loads of head and tail and the branch
\* (the interrupt never writes head, so the comparison happens at the load of
\* tail)
SendPushTestWrap ==
    /\ t_pc = "test_wrap"
    /\ IF tx.head = tx.tail
       THEN t_pc' = "store_full" /\ s_idx' = s_idx
       ELSE PushReturns
    /\ UNCHANGED <<tx, tx_busy, inflight, handed, wire, s_data, s_ret, nextId,
                   s_base, s_idle, s_tail, s_full, t_build, ringVars, rxVars, shellVars,
                   cliVars, hwVars>>

\* ... rb->full = true; and the push returns
SendPushFull ==
    /\ t_pc = "store_full"
    /\ tx' = push_full_store(tx)
    /\ PushReturns
    /\ UNCHANGED <<tx_busy, inflight, handed, wire, s_data, s_ret, nextId,
                   s_base, s_idle, s_tail, s_full, t_build, ringVars, rxVars, shellVars,
                   cliVars, hwVars>>

\* if (!uart_driver->tx_busy) ... else return length
SendCheckBusy ==
    /\ t_pc = "check_busy"
    /\ IF tx_busy
       THEN t_pc' = "idle" /\ s_ret' = Len(s_data)
       ELSE t_pc' = "start" /\ s_ret' = s_ret
    /\ UNCHANGED <<tx, tx_busy, inflight, handed, wire, s_data, s_idx, nextId,
                   s_base, s_idle, s_tail, s_full, t_build, ringVars, rxVars, shellVars, cliVars, hwVars>>

\* HAL_UART_Transmit_IT(huart, &first, 1) and (huart, &next, 1): the HAL keeps
\* the pointer and the peripheral's interrupt reads the byte through it later.
\* `first` and `next` are automatic variables of a block that is left right
\* after the call, so the read may come after their lifetime: the byte that
\* goes out is the byte popped, or whatever the slot holds by then (0 stands
\* for every other value).
transmitted(byte) == {byte, 0}

\* if (ring_buffer_pop(&ring_buffer_tx, &first)) { tx_busy = true;
\* HAL_UART_Transmit_IT(&first) } else return 0;  return length.
\* No TX complete interrupt can arrive here: tx_busy is false, so no transfer
\* is running (TxBusyWhenInFlight below), and the pop is one step.
SendStart ==
    /\ t_pc = "start"
    /\ LET r == ring_buffer_pop(tx) IN
        IF r.ok
        THEN /\ tx' = r.rb
             /\ tx_busy' = TRUE
             /\ handed' = Append(handed, r.data)
             /\ wire' \in transmitted(r.data)
             /\ inflight' = TRUE
             /\ s_ret' = Len(s_data)
        ELSE /\ s_ret' = 0
             /\ UNCHANGED <<tx, tx_busy, handed, wire, inflight>>
    /\ t_pc' = "idle"
    /\ UNCHANGED <<s_data, s_idx, nextId, s_base, s_idle, s_tail, s_full, t_build, ringVars, rxVars, shellVars,
                   cliVars, hwVars>>

\* uart_driver_tx_it_callback that leaves tx_busy set when the ring is empty
tx_it_callback_keeps_busy(ring, busy) ==
    LET r == ring_buffer_pop(ring) IN
    IF r.ok
    THEN {[rb |-> r.rb, busy |-> busy, next |-> r.data, xmit |-> <<byte>>] :
              byte \in transmitted(r.data)}
    ELSE {[rb |-> ring, busy |-> busy, next |-> 0, xmit |-> <<>>]}

\* uart_driver_tx_it_callback: pop the next byte into the local `next` and
\* call HAL_UART_Transmit_IT(huart, &next, 1) (xmit: what the peripheral reads
\* through &next), or clear tx_busy when the ring is empty (next not
\* written, xmit empty); the set of its possible outcomes
uart_driver_tx_it_callback(ring, busy) ==
    LET r == ring_buffer_pop(ring) IN
    IF r.ok
    THEN {[rb |-> r.rb, busy |-> busy, next |-> r.data, xmit |-> <<byte>>] :
              byte \in transmitted(r.data)}
    ELSE {[rb |-> ring, busy |-> FALSE, next |-> 0, xmit |-> <<>>]}

\* TX complete interrupt of the transfer in flight; it runs to completion
\* between any two loads or stores of the task
TxCplt ==
    /\ inflight
    /\ \E c \in uart_driver_tx_it_callback(tx, tx_busy) :
        /\ tx' = c.rb
        /\ tx_busy' = c.busy
        /\ IF c.xmit # <<>>
           THEN handed' = Append(handed, c.next) /\ wire' = c.xmit[1]
           ELSE UNCHANGED <<handed, wire>>
        /\ inflight' = (c.xmit # <<>>)
    /\ UNCHANGED <<t_pc, s_data, s_idx, s_ret, nextId, s_base, s_idle, s_tail, s_full, t_build,
                   ringVars, rxVars, shellVars, cliVars, hwVars>>

SendStep ==
    \/ SendPushStore
    \/ SendPushHead
    \/ SendPushTestFull
    \/ SendPushLoadTail
    \/ SendPushTail
    \/ SendPushTestWrap
    \/ SendPushFull
    \/ SendCheckBusy
    \/ SendStart

TxNext == SendCall \/ SendStep \/ TxCplt

SpecTx == TxInit /\ [][TxNext]_vars

\* Every started transfer completes (its interrupt fires) and the task loop
\* keeps running a send it has entered; whether send is called again is free.
\* The sends of this specification carry MaxFairBytes bytes in all.
SpecTxFair ==
    /\ TxInit
    /\ [][(SendCall /\ nextId' <= MaxFairBytes + 1) \/ SendStep \/ TxCplt]_vars
    /\ WF_vars(TxCplt)
    /\ WF_vars(SendStep)

\* a transfer is running only while tx_busy is set
TxBusyWhenInFlight == inflight => tx_busy

\* ---------------------------------------------------------------------
\* Claims about the transmit side
\* ---------------------------------------------------------------------

\* the elements of a sequence
Range(q) == {q[i] : i \in DOMAIN q}

\* the bytes handed to the hardware since the latest send was called
HandedSinceCall == SubSeq(handed, s_base + 1, Len(handed))

\* C4: send with L >= 1 bytes on an idle transport (TX ring empty, tx_busy
\* false) hands exactly those L bytes, in order, to the hardware, the first
\* by send itself and one more per TX complete notification; the
\* notification after the last byte finds the ring empty and leaves tx_busy
\* false.  Stated for every L, also L above the TX ring capacity.
Cex_C4 ==
    (s_idle /\ Len(s_data) >= 1) =>
        /\ Len(HandedSinceCall) <= Len(s_data)
        /\ HandedSinceCall = SubSeq(s_data, 1, Len(HandedSinceCall))
        /\ (t_pc = "idle" /\ ~tx_busy => HandedSinceCall = s_data)

\* C6: when the TX complete interrupt's pop runs between the steps of a push
\* made by send, the bytes handed to the hardware keep send order and no
\* byte is handed more often than it was passed to send (bytes are numbered
\* in send order, each passed once: the numbers handed strictly increase).
Cex_C6 ==
    \A i \in DOMAIN handed : \A j \in DOMAIN handed :
        i < j => handed[i] < handed[j]

\* C7, the state part: no quiescent state (no send executing, no transfer in
\* flight) has a non-empty TX ring or tx_busy still set.
NoStall ==
    (t_pc = "idle" /\ ~inflight) =>
        /\ ring_buffer_is_empty(tx)
        /\ ring_buffer_get_count(tx) = 0
        /\ ~tx_busy

\* C7: under any interleaving of send calls with TX complete interrupts,
\* every started transfer completing, the transmit chain never stalls: no
\* quiescent state with a non-empty TX ring is reachable, and the ring is
\* drained and tx_busy cleared for good once the (finitely many) sends are
\* over.
Thm_C7 == []NoStall /\ <>[](~tx_busy /\ ~inflight /\ ring_buffer_get_count(tx) = 0)

\* C7 witness: the chain ran dry after an interrupt had popped bytes that a
\* send queued while a transfer was in flight (send returned without
\* starting a transfer itself).
Wit_C7 ==
    /\ t_pc = "idle"
    /\ ~inflight
    /\ ~tx_busy
    /\ ~s_idle
    /\ s_ret = Len(s_data)
    /\ Len(s_data) >= 2
    /\ Len(HandedSinceCall) >= 2

\* C8: send returns the input length for an input of length >= 1 unless the
\* TX ring is empty when send tries to start transmission, where it returns
\* 0; and whenever send returns 0 for a non-empty input, that input has not
\* been fully transmitted yet.
Cex_C8 ==
    (t_pc = "idle" /\ Len(s_data) >= 1) =>
        /\ s_ret \in {0, Len(s_data)}
        /\ (s_ret = 0 => \E i \in DOMAIN s_data : s_data[i] \notin Range(handed))

\* ---------------------------------------------------------------------
\* Receive side: the task drains the RX ring with ring_buffer_pop (the loop
\* condition of uart_driver_poll), stepped by the loads and stores of the
\* fields the interrupt writes, while the
\* RX interrupt (uart_driver_rx_it_callback) pushes the arriving bytes.
\* ---------------------------------------------------------------------

\* uart_driver_init: ring_buffer_init of the RX ring, reception armed
RxInit ==
    /\ rx = ring_buffer_init(zeroed(RxCap), RxCap)
    /\ r_pc = "idle"
    /\ r_data = 0
    /\ r_popped = <<>>
    /\ rx_n = 0
    /\ unread = <<>>
    /\ r_expect = 0
    /\ r_missed = 0
    /\ r_head = 0
    /\ r_tail = 0
    /\ r_had = 0
    /\ r_build \in PopOrders
    /\ RingOff
    /\ TxOff
    /\ ShellOff
    /\ CliOff
    /\ HwOff

\* uart_driver_rx_it_callback: ring_buffer_push(&ring_buffer_rx, rx_byte) and
\* re-arm; it runs to completion between any two loads or stores of the task
RxCplt ==
    /\ rx_n < MaxRx
    /\ rx' = ring_buffer_push(rx, rx_n + 1)
    /\ rx_n' = rx_n + 1
    /\ unread' = IF Len(unread) = RxCap
                 THEN Append(Tail(unread), rx_n + 1)
                 ELSE Append(unread, rx_n + 1)
    /\ UNCHANGED <<r_pc, r_data, r_popped, r_expect, r_missed, r_head, r_tail, r_had,
                   r_build, ringVars, txVars, shellVars, cliVars, hwVars>>

\* ring_buffer_pop returns `ok` to the loop condition of the poll function,
\* which goes on to its body or returns; the registers of the pop are dead
PopReturns(ok) ==
    /\ pl_pc' = IF pl_pc = "off" THEN "off" ELSE IF ok THEN "body" ELSE "idle"
    /\ r_head' = 0
    /\ r_tail' = 0
    /\ UNCHANGED <<pl_variant, packet, last_rx_tick, tick, delivered, portVars>>

\* ring_buffer_pop: if (ring_buffer_is_empty(rb)), whose result is
\* (rb->full == false) && (rb->head == rb->tail): the load of full.  A set
\* flag ends the test (not empty), and tail is loaded next for line 46.
PollPopCheck ==
    /\ r_pc = "idle"
    /\ pl_pc \in {"off", "loop"}
    /\ r_had' = Len(unread)
    /\ r_pc' = IF rx.full THEN "load_tail" ELSE "test_empty"
    /\ UNCHANGED <<rx, r_data, r_popped, rx_n, unread, r_expect, r_missed, r_head, r_tail,
                   r_build, ringVars, txVars, shellVars, cliVars, hwVars>>

\* ... rb->head == rb->tail, head being loaded first
PollPopHead ==
    /\ r_pc = "test_empty"
    /\ ~r_build.tail_first
    /\ r_head' = rx.head
    /\ r_pc' = "cmp_tail"
    /\ UNCHANGED <<rx, r_data, r_popped, rx_n, unread, r_expect, r_missed, r_tail, r_had,
                   r_build, ringVars, txVars, shellVars, cliVars, hwVars>>

\* ... rb->head == rb->tail, tail being loaded first
PollPopTailFirst ==
    /\ r_pc = "test_empty"
    /\ r_build.tail_first
    /\ r_tail' = rx.tail
    /\ r_pc' = "cmp_head"
    /\ UNCHANGED <<rx, r_data, r_popped, rx_n, unread, r_expect, r_missed, r_head, r_had,
                   r_build, ringVars, txVars, shellVars, cliVars, hwVars>>

\* ... rb->head == rb->tail: the load of the other operand and the
\* comparison; return false when the ring looked empty.  With index_kept the
\* tail loaded for the comparison is the index of line 46.
PollPopEmpty ==
    /\ r_pc \in {"cmp_tail", "cmp_head"}
    /\ IF (r_pc = "cmp_tail" /\ r_head = rx.tail) \/ (r_pc = "cmp_head" /\ rx.head = r_tail)
       THEN /\ r_missed' = IF r_had > 0 THEN Len(unread) ELSE 0
            /\ r_pc' = "idle"
            /\ PopReturns(FALSE)
       ELSE /\ r_missed' = 0
            /\ r_pc' = IF r_build.index_kept THEN "pop_read" ELSE "load_tail"
            /\ r_tail' = IF r_pc = "cmp_tail" THEN rx.tail ELSE r_tail
            /\ UNCHANGED <<r_head, hwVars>>
    /\ UNCHANGED <<rx, r_data, r_popped, rx_n, unread, r_expect, r_had,
                   r_build, ringVars, txVars, shellVars, cliVars>>

\* ... *data = rb->buffer[rb->tail]: the load of tail
PollPopIndex ==
    /\ r_pc = "load_tail"
    /\ r_tail' = rx.tail
    /\ r_pc' = "pop_read"
    /\ UNCHANGED <<rx, r_data, r_popped, rx_n, unread, r_expect, r_missed, r_head, r_had,
                   r_build, ringVars, txVars, shellVars, cliVars, hwVars>>

\* ... *data = rb->buffer[rb->tail]: the load of the slot at the index loaded
PollPopRead ==
    /\ r_pc = "pop_read"
    /\ r_data' = pop_read(rx, r_tail)
    /\ r_expect' = IF unread # <<>> THEN Head(unread) ELSE 0
    /\ unread' = IF unread # <<>> THEN Tail(unread) ELSE unread
    /\ r_pc' = "reload_tail"
    /\ UNCHANGED <<rx, r_popped, rx_n, r_missed, r_head, r_tail, r_had,
                   r_build, ringVars, txVars, shellVars, cliVars, hwVars>>

\* ... rb->tail = (rb->tail + 1) % rb->capacity: the load of tail (*data may
\* be rb->tail for all the function knows, so tail is loaded again after the
\* store to it); the store of tail follows, or with full_first the store of
\* full
PollPopLoadTail ==
    /\ r_pc = "reload_tail"
    /\ r_tail' = rx.tail
    /\ r_pc' = IF r_build.full_first THEN "pop_full" ELSE "pop_tail"
    /\ UNCHANGED <<rx, r_data, r_popped, rx_n, unread, r_expect, r_missed, r_head, r_had,
                   r_build, ringVars, txVars, shellVars, cliVars, hwVars>>

\* ... rb->tail = (rb->tail + 1) % rb->capacity: the store, of the value
\* computed from the tail loaded before; with full_first the last store,
\* after which the pop returns true
PollPopTail ==
    /\ r_pc = "pop_tail"
    /\ rx' = pop_tail_store(rx, r_tail)
    /\ IF ~r_build.full_first
       THEN r_pc' = "pop_full" /\ r_popped' = r_popped /\ UNCHANGED <<r_head, r_tail, hwVars>>
       ELSE r_pc' = "idle" /\ r_popped' = Append(r_popped, r_data) /\ PopReturns(TRUE)
    /\ UNCHANGED <<r_data, rx_n, unread, r_expect, r_missed, r_had,
                   r_build, ringVars, txVars, shellVars, cliVars>>

\* ... rb->full = false; the last store unless full_first, after which the
\* pop returns true
PollPopFull ==
    /\ r_pc = "pop_full"
    /\ rx' = pop_full(rx)
    /\ IF ~r_build.full_first
       THEN r_pc' = "idle" /\ r_popped' = Append(r_popped, r_data) /\ PopReturns(TRUE)
       ELSE r_pc' = "pop_tail" /\ r_popped' = r_popped /\ UNCHANGED <<r_head, r_tail, hwVars>>
    /\ UNCHANGED <<r_data, rx_n, unread, r_expect, r_missed, r_had,
                   r_build, ringVars, txVars, shellVars, cliVars>>

\* the steps of ring_buffer_pop on the RX ring in task context
PollPop ==
    \/ PollPopCheck
    \/ PollPopHead
    \/ PollPopTailFirst
    \/ PollPopEmpty
    \/ PollPopIndex
    \/ PollPopRead
    \/ PollPopLoadTail
    \/ PollPopTail
    \/ PollPopFull

RxNext == RxCplt \/ PollPop

SpecRx == RxInit /\ [][RxNext]_vars

\* C5: with the RX interrupt's push running between any two steps of the
\* task's pop, the RX ring still behaves as an atomic overwrite-oldest FIFO:
\* every pop returns the oldest unread byte (arrival order, no repeats), a
\* byte is lost only by a push that found RxCap unread bytes stored (between
\* pops the ring holds exactly the reference queue), and the ring never
\* reports empty while unread bytes exist.
Cex_C5 ==
    /\ (r_pc \in {"reload_tail", "pop_tail", "pop_full"} => r_data = r_expect)
    /\ (\A i \in DOMAIN r_popped : \A j \in DOMAIN r_popped :
            i < j => r_popped[i] < r_popped[j])
    /\ (r_pc = "idle" => RingContents(rx) = unread)
    /\ r_missed = 0

\* ---------------------------------------------------------------------
\* Line editor specification: shell_init, then shell_task consumes one
\* received byte per step.  Every printable byte takes the same path through
\* the editor and distinct history entries differ in length, so one typed
\* character, 'A' (also the final byte of the Up sequence), stands for all;
\* '[', 'B', 'C' and 'D' are sent inside escape sequences only.
\* ---------------------------------------------------------------------
ShellInit ==
    /\ shell = shell_init
    /\ parsing_state = STATE_NORMAL
    /\ ref_hist = <<>>
    /\ ref_wrapped = FALSE
    /\ nav = [pos |-> 0, down |-> FALSE]
    /\ screen = blank_row
    /\ RingOff
    /\ TxOff
    /\ RxOff
    /\ CliOff
    /\ HwOff

\* which branch of the shell_task loop body a byte takes
KeyKind(sh, ps, b) ==
    IF overflow(sh, b) THEN "overflow"
    ELSE CASE ps = STATE_NORMAL ->
                IF b = 27 THEN "esc"
                ELSE IF b = 13 THEN "enter"
                ELSE IF b = 127 \/ b = 8 THEN "backspace"
                ELSE IF b >= 32 /\ b <= 126 THEN "char"
                ELSE "ignored"
           [] ps = STATE_ESC -> "esc2"
           [] ps = STATE_CSI ->
                CASE b = 65 -> "up" [] b = 66 -> "down" [] b = 67 -> "right"
                  [] b = 68 -> "left" [] OTHER -> "ignored"

\* the reference history after the line `line` is committed
RefCommit(hist, line) ==
    IF line = <<>> \/ (hist # <<>> /\ hist[Len(hist)] = line) THEN hist
    ELSE IF Len(hist) = SHELL_HISTORY_SIZE THEN Append(Tail(hist), line)
    ELSE Append(hist, line)

\* the position the reference history is browsed at after a key
NavAfter(kind) ==
    CASE kind = "enter" -> [pos |-> 0, down |-> FALSE]
      [] kind \in {"esc", "esc2", "ignored"} -> nav
      [] kind = "up" ->
            IF nav.pos >= 0 /\ ~nav.down /\ nav.pos < Len(ref_hist)
            THEN [pos |-> nav.pos + 1, down |-> FALSE]
            ELSE [pos |-> -1, down |-> FALSE]
      [] kind = "down" ->
            IF nav.pos >= 2 /\ ~nav.down
            THEN [pos |-> nav.pos - 1, down |-> TRUE]
            ELSE [pos |-> -1, down |-> FALSE]
      [] OTHER -> [pos |-> -1, down |-> FALSE]

\* shell_task takes received_byte out of the RX ring and processes it
Fed(received_byte) ==
    LET r == shell_task(shell, parsing_state, received_byte)
        kind == KeyKind(shell, parsing_state, received_byte)
        line == DispatchedLine(shell)
    IN
    /\ shell' = r.sh
    /\ parsing_state' = r.ps
    /\ nav' = NavAfter(kind)
    /\ ref_hist' = IF kind = "enter" THEN RefCommit(ref_hist, line) ELSE ref_hist
    /\ ref_wrapped' = (ref_wrapped \/ (kind = "enter" /\ RefCommit(ref_hist, line) # ref_hist
                                        /\ Len(ref_hist) = SHELL_HISTORY_SIZE))
    /\ UNCHANGED <<ringVars, txVars, rxVars, cliVars, hwVars>>

\* the same, the terminal left aside
Feed(received_byte) == Fed(received_byte) /\ screen' = screen

\* the same, the bytes sent for received_byte reaching the terminal
FeedShown(received_byte) ==
    /\ Fed(received_byte)
    /\ \E sent \in {shell_task_sent(shell, parsing_state, received_byte)} :
           screen' = terminal_bytes(screen, sent)

\* '\r'
KeyEnter == Feed(13)

\* DEL and BS
KeyErase == \E b \in {127, 8} : Feed(b)

\* ESC
KeyEscape == Feed(27)

\* 'A'
KeyChar == Feed(65)

\* '[', 'B', 'C' and 'D' after ESC
KeyCsi == parsing_state # STATE_NORMAL /\ \E b \in {91, 66, 67, 68} : Feed(b)

\* a control byte the editor has no use for (TAB)
KeyOther == Feed(9)

ShellNext == KeyEnter \/ KeyErase \/ KeyEscape \/ KeyChar \/ KeyCsi \/ KeyOther

SpecShell == ShellInit /\ [][ShellNext]_vars

\* ---------------------------------------------------------------------
\* Claims about the line editor
\* ---------------------------------------------------------------------

\* C9: in every state reachable by feeding bytes to the line editor,
\* cursor_pos <= length < SHELL_MAX_LENGTH, so that buffer[length], where the
\* terminating NUL goes, is inside the buffer.
Thm_C9 ==
    /\ shell.cursor_pos <= shell.length
    /\ shell.length < SHELL_MAX_LENGTH
    /\ shell.length \in DOMAIN shell.buffer

\* C9 witness: the line is as long as it can get, the cursor is inside it,
\* and that after a line was discarded for overflow earlier (the history
\* still browses an older entry on a line that is not a recalled one).
Wit_C9 ==
    /\ shell.length = SHELL_MAX_LENGTH - 1
    /\ shell.cursor_pos < shell.length
    /\ shell.count > 0

\* C10: after committing k commands, no two consecutive ones equal when
\* duplicates are dropped, 2 <= k <= SHELL_HISTORY_SIZE, the j-th consecutive
\* Up press on a fresh line (1 <= j <= k) recalls the j-th most recent
\* command and a following Down the next more recent one, and exactly k
\* entries are stored.
Cex_C10 ==
    (nav.pos >= 1 /\ ~ref_wrapped /\ Len(ref_hist) >= 2) =>
        /\ Line(shell) = ref_hist[Len(ref_hist) - nav.pos + 1]
        /\ shell.count = Len(ref_hist)

\* slot i of history.commands holds a retained command: while fewer than
\* SHELL_HISTORY_SIZE commands are stored these are the slots 0 .. count - 1
Retained(sh, i) == sh.count >= SHELL_HISTORY_SIZE \/ i < sh.count

\* the Up key (ESC [ A), handled by handle_cursor_up
UpPress == parsing_state = STATE_CSI /\ ~overflow(shell, 65) /\ Feed(65)

\* C11: history-previous never moves past the oldest retained entry: when
\* the oldest retained command is shown after as many Up presses as commands
\* are retained, a further Up press leaves the line and browse_index
\* unchanged, and no Up press moves browse_index to a slot that holds no
\* retained command.
Cex_C11 ==
    [][UpPress =>
          /\ (nav.pos >= 1 /\ nav.pos = Len(ref_hist) /\ ~nav.down
                  /\ Line(shell) = ref_hist[1]) =>
                 (Line(shell') = Line(shell)
                     /\ shell'.browse_index = shell.browse_index)
          /\ shell'.browse_index # shell.browse_index =>
                 Retained(shell', shell'.browse_index)]_vars

\* a line without its trailing spaces
RECURSIVE Stripped(_)
Stripped(line) ==
    IF line # <<>> /\ line[Len(line)] = 32
    THEN Stripped(SubSeq(line, 1, Len(line) - 1))
    ELSE line

\* the Enter key in Normal state, handled by handle_carriage_return
EnterPress == parsing_state = STATE_NORMAL /\ Feed(13)

\* the most recently stored history entry
LastStored(sh) ==
    CStr(sh.commands[(sh.current_index + SHELL_HISTORY_SIZE - 1) % SHELL_HISTORY_SIZE])

\* no two successively stored history entries are equal
NoTwinEntries ==
    \A i \in HistIdx :
        LET j == (i + 1) % SHELL_HISTORY_SIZE IN
        (Retained(shell, i) /\ Retained(shell, j) /\ j # shell.current_index /\ i # j) =>
            CStr(shell.commands[i]) # CStr(shell.commands[j])

\* what committing the line (trailing spaces removed) does to the history
CommitEffect ==
    LET line == Stripped(Line(shell))
        h == shell
        h2 == shell'
    IN
    EnterPress =>
        IF line = <<>> \/ (h.count > 0 /\ line = LastStored(h))
        THEN /\ h2.count = h.count
             /\ h2.current_index = h.current_index
             /\ h2.commands = h.commands
        ELSE /\ CStr(h2.commands[h.current_index]) = line
             /\ h2.current_index = (h.current_index + 1) % SHELL_HISTORY_SIZE
             /\ h2.count = (IF h.count < SHELL_HISTORY_SIZE THEN h.count + 1 ELSE h.count)
             /\ \A i \in HistIdx \ {h.current_index} : h2.commands[i] = h.commands[i]

\* C12: a committed line equal to the most recently stored history entry is
\* not appended (count, write index and entries unchanged), so no two
\* successively stored entries are equal; every other non-empty committed
\* line is stored at the write index, which over SHELL_HISTORY_SIZE entries
\* is the slot of the oldest entry.
Thm_C12 == []NoTwinEntries /\ [][CommitEffect]_vars

\* C12 witness: the history is full, the write index has gone round and a
\* line was just committed on top of the oldest entry
Wit_C12 ==
    /\ ref_wrapped
    /\ shell.count = SHELL_HISTORY_SIZE
    /\ nav.pos = 0 /\ shell.length = 0
    /\ LastStored(shell) = CStr(shell.buffer)
    /\ LastStored(shell) = ref_hist[Len(ref_hist)]

\* ---------------------------------------------------------------------
\* Two-character editor specification: the same editor, with the two
\* printable bytes 'A' and ' ' typed, so that the position of an inserted
\* character, trailing spaces and tokens are visible.  The user commits
\* lines as long as the history holds at most MaxLines of them.
\* ---------------------------------------------------------------------

\* 'A' and ' '
TypeChar == \E b \in {65, 32} : Feed(b)

\* '\r'
CommitLine ==
    /\ KeyKind(shell, parsing_state, 13) = "enter" =>
           Len(RefCommit(ref_hist, DispatchedLine(shell))) <= MaxLines
    /\ Feed(13)

EditNext == CommitLine \/ KeyErase \/ KeyEscape \/ TypeChar \/ KeyCsi \/ KeyOther

SpecEdit == ShellInit /\ [][EditNext]_vars

\* ---------------------------------------------------------------------
\* Terminal specification: the keys of the line-editing specification, with
\* the bytes the editor sends for each applied to the terminal row.
\* ---------------------------------------------------------------------

\* '\r'
EchoEnter ==
    /\ KeyKind(shell, parsing_state, 13) = "enter" =>
           Len(RefCommit(ref_hist, DispatchedLine(shell))) <= MaxLines
    /\ FeedShown(13)

\* DEL and BS
EchoErase == \E b \in {127, 8} : FeedShown(b)

\* ESC
EchoEscape == FeedShown(27)

\* 'A' and ' '
EchoChar == \E b \in {65, 32} : FeedShown(b)

\* '[', 'B', 'C' and 'D' after ESC
EchoCsi == parsing_state # STATE_NORMAL /\ \E b \in {91, 66, 67, 68} : FeedShown(b)

EchoNext == EchoEnter \/ EchoErase \/ EchoEscape \/ EchoChar \/ EchoCsi

SpecEcho == ShellInit /\ [][EchoNext]_vars

\* ---------------------------------------------------------------------
\* Claims checked on the two-character editor
\* ---------------------------------------------------------------------

\* the printable bytes typed in the two-character editor
Typed == {65, 32}

\* the words of n typed bytes
Words(n) == [1..n -> Typed]

\* n backspace bytes (127)
Erasures(n) == [i \in 1..n |-> 127]

\* inserting b at the cursor and pressing backspace gives the line, length
\* and cursor back
InsertErase ==
    (parsing_state = STATE_NORMAL /\ shell.length < SHELL_MAX_LENGTH - 1) =>
        \A b \in Typed :
            LET r == shell_task_run(shell, parsing_state, <<b, 127>>).sh IN
            /\ Line(r) = Line(shell)
            /\ r.length = shell.length
            /\ r.cursor_pos = shell.cursor_pos

\* from an empty line, n typed bytes and n backspaces give an empty line
\* with the cursor at 0, and one more backspace changes nothing
TypeEraseAll ==
    (parsing_state = STATE_NORMAL /\ shell.length = 0) =>
        \A n \in 1..(SHELL_MAX_LENGTH - 1) : \A w \in Words(n) :
            LET r == shell_task_run(shell, parsing_state, w \o Erasures(n)).sh IN
            /\ r.length = 0
            /\ r.cursor_pos = 0
            /\ shell_task(r, STATE_NORMAL, 127).sh = r

\* C13: in every reachable editor state in Normal state with
\* length < SHELL_MAX_LENGTH - 1, at every cursor position, inserting a
\* printable byte and then pressing backspace (127) restores the line
\* buffer[0 .. length - 1], length and cursor_pos; from an empty line n
\* printable bytes followed by n backspaces give an empty line with cursor
\* 0, and a further backspace changes nothing.
Thm_C13 == [](InsertErase /\ TypeEraseAll)

\* C13 witness: the cursor stands between two different characters of a
\* line that has room for one more
Wit_C13 ==
    /\ parsing_state = STATE_NORMAL
    /\ shell.length < SHELL_MAX_LENGTH - 1
    /\ shell.cursor_pos > 0 /\ shell.cursor_pos < shell.length
    /\ shell.buffer[shell.cursor_pos - 1] # shell.buffer[shell.cursor_pos]

\* C14: when the line is full (length SHELL_MAX_LENGTH - 1) and more
\* printable bytes are typed before Enter, the whole input is discarded: the
\* Enter that follows hands nothing to the command dispatcher and stores
\* nothing in the history, whatever was typed after the error.
Cex_C14 ==
    (parsing_state = STATE_NORMAL /\ shell.length = SHELL_MAX_LENGTH - 1) =>
        \A n \in 1..2 : \A w \in Words(n) :
            LET typed == shell_task_run(shell, parsing_state, w).sh
                entered == shell_task(typed, STATE_NORMAL, 13).sh
            IN
            /\ DispatchedLine(typed) = <<>>
            /\ entered.commands = shell.commands
            /\ entered.count = shell.count
            /\ entered.current_index = shell.current_index

\* C15: on '\r' in Normal state the line without its trailing spaces is
\* what is handed to the command dispatcher (nothing is handed over when
\* that is empty), and afterwards length = 0, cursor_pos = 0 and
\* browse_index = current_index (the write index), whether the line was
\* empty, a duplicate of the newest stored command, or new.
Thm_C15 ==
    parsing_state = STATE_NORMAL =>
        LET r == shell_task(shell, parsing_state, 13).sh IN
        /\ DispatchedLine(shell) = Stripped(Line(shell))
        /\ r.length = 0
        /\ r.cursor_pos = 0
        /\ r.browse_index = r.current_index

\* C15 witness: Enter is due on a line that ends in a space and is, the
\* space removed, the newest stored command, recalled from the history
\* (browse_index is not the write index)
Wit_C15 ==
    /\ parsing_state = STATE_NORMAL
    /\ Line(shell) # Stripped(Line(shell))
    /\ shell.count > 0
    /\ Stripped(Line(shell)) = LastStored(shell)
    /\ shell.browse_index # shell.current_index

\* the command lines that fit the edit buffer: typed bytes, no trailing space
Commands ==
    UNION {{w \in Words(n) : w[n] # 32} : n \in 1..(SHELL_MAX_LENGTH - 1)}

\* an empty line with the parser in Normal state
Settled(s) == s.ps = STATE_NORMAL /\ s.sh.length = 0 /\ s.sh.cursor_pos = 0

\* the commands of one or two characters
ShortCommands == {cmd \in Commands : Len(cmd) <= 2}

\* two '\r' at most settle the editor, and a command typed then is
\* dispatched as typed
SettlesAndDispatches ==
    LET now == [sh |-> shell, ps |-> parsing_state]
        once == shell_task_run(shell, parsing_state, <<13>>)
        twice == shell_task_run(once.sh, once.ps, <<13>>)
        ready == IF Settled(once) THEN once ELSE twice
    IN
    /\ Settled(ready)
    /\ \A cmd \in (IF Settled(now) THEN Commands ELSE ShortCommands) :
           LET typed == shell_task_run(ready.sh, ready.ps, cmd) IN
           /\ typed.ps = STATE_NORMAL
           /\ DispatchedLine(typed.sh) = cmd
           /\ Settled(shell_task(typed.sh, typed.ps, 13))

\* C16: from every reachable state (inside an escape sequence, on a full
\* line, after a discarded line, while browsing the history) at most two
\* '\r' bring the editor to an empty line with the parser in Normal state,
\* and a command typed then and followed by '\r' is dispatched as typed,
\* leaving an empty line in Normal state again.  The commands typed are all
\* those that fit the buffer when the state is an empty line in Normal
\* state already, and the short ones otherwise.
Thm_C16 == []SettlesAndDispatches

\* C16 witness: an escape sequence is in progress on a non-empty line with
\* the cursor inside it, after a command was stored; the first '\r' only
\* ends the escape sequence
Wit_C16 ==
    /\ parsing_state = STATE_CSI
    /\ shell.length > 0 /\ shell.cursor_pos < shell.length
    /\ shell.count > 0
    /\ ~Settled(shell_task_run(shell, parsing_state, <<13>>))

\* ---------------------------------------------------------------------
\* Command dispatcher specification: one call of cli_parser_execute or of
\* cli_parser_handle_tab_completion, on a command line or partial input
\* drawn from the sets below, with user_led in one of the states the led
\* commands leave it in.
\* ---------------------------------------------------------------------

\* the tokens command lines are made of: the command names, the led
\* subcommands, "50" and "x"
Tokens ==
    {help_name, clear_name, history_name, version_name, led_name,
     on_arg, off_arg, toggle_arg, blink_arg, get_state_arg, <<53, 48>>, <<120>>}

\* the tokens toks separated by single spaces
RECURSIVE Join(_)
Join(toks) ==
    IF Len(toks) = 1 THEN toks[1]
    ELSE toks[1] \o <<32>> \o Join(Tail(toks))

\* the tokens after the second one: "help", "led", "50" and "x" (no handler
\* looks at more of them than their number, but for the period of led blink,
\* which BlinkLines enumerate)
LaterTokens == {help_name, led_name, <<53, 48>>, <<120>>}

\* the command lines of 1 to MaxTokens tokens
TokenLines ==
    {Join(toks) :
         toks \in UNION {{t \in [1..n -> Tokens] : \A i \in 3..n : t[i] \in LaterTokens} :
                            n \in 1..MaxTokens}}

\* first tokens that are near a command name without being one: "HELP",
\* "Led" (another case) and "hel", "le" (proper prefixes)
NearNames == {<<72, 69, 76, 80>>, <<76, 101, 100>>, <<104, 101, 108>>, <<108, 101>>}

\* the command lines that start with such a token, alone or followed by one
\* more token
NearNameLines ==
    {first \o rest : first \in NearNames,
                     rest \in {<<>>} \cup {<<32>> \o tok : tok \in Tokens}}

\* period arguments of led blink: "50", "1", "10000", "10001", "20000",
\* "0", "-5", "-0", "+50", "007", "5x", "x5", "1e3", "0x10", "+", "-",
\* "99999999999", "-2147483648", "-99999999999"
Periods ==
    {<<53, 48>>, <<49>>, <<49, 48, 48, 48, 48>>, <<49, 48, 48, 48, 49>>,
     <<50, 48, 48, 48, 48>>, <<48>>, <<45, 53>>, <<45, 48>>, <<43, 53, 48>>,
     <<48, 48, 55>>, <<53, 120>>, <<120, 53>>, <<49, 101, 51>>,
     <<48, 120, 49, 48>>, <<43>>, <<45>>,
     <<57, 57, 57, 57, 57, 57, 57, 57, 57, 57, 57>>,
     <<45, 50, 49, 52, 55, 52, 56, 51, 54, 52, 56>>,
     <<45, 57, 57, 57, 57, 57, 57, 57, 57, 57, 57, 57>>}

\* the lines "led blink <n>" and "led blink <n> <token>"
BlinkLines ==
    {Join(<<led_name, blink_arg, n>> \o rest) :
         n \in Periods, rest \in {<<>>} \cup {<<tok>> : tok \in {<<120>>, <<53, 48>>}}}

\* the lines of 5 to 7 tokens: three tokens that start a command, then
\* two to four of "x" and "50"
ManyTokenLines ==
    {Join(first \o rest) :
         first \in {<<led_name, blink_arg, <<53, 48>>>>, <<led_name, on_arg, <<120>>>>,
                    <<help_name, led_name, <<120>>>>, <<<<120>>, help_name, led_name>>},
         rest \in UNION {[1..n -> {<<120>>, <<53, 48>>}] : n \in 2..4}}

\* the lines without a token, and lines whose tokens have more than one
\* space between them, before the first or after the last:
\* "", " ", "  ", " led  on ", "  help", "x  x x x  x x "
SpaceLines ==
    {<<>>, <<32>>, <<32, 32>>,
     <<32>> \o led_name \o <<32, 32>> \o on_arg \o <<32>>,
     <<32, 32>> \o help_name,
     <<120, 32, 32, 120, 32, 120, 32, 120, 32, 32, 120, 32, 120, 32>>}

\* the longest line shell_task stores: the edit buffer and the buffer of
\* shell_printf are both char[SHELL_MAX_LENGTH] of shell.h
LongestLine == PRINTF_BUFFER - 1

\* the lengths of long first tokens: the longest whose unknown-command
\* message (29 characters, the token, NEWLINE_SEQ of two bytes) still is
\* shorter than the buffer of shell_printf, two more, and the longest line
LongLens == {PRINTF_BUFFER - 32, PRINTF_BUFFER - 30, LongestLine}

\* the lines whose first token is that many times "x", alone, and the
\* shortest of them followed by " help"
LongLines ==
    {Repeat(120, n) : n \in LongLens}
    \cup {Repeat(120, PRINTF_BUFFER - 32) \o <<32>> \o help_name}

\* the command lines passed to cli_parser_execute
Lines ==
    TokenLines \cup NearNameLines \cup BlinkLines \cup ManyTokenLines \cup SpaceLines
    \cup LongLines

\* the characters of partial inputs: the letters of the command names
\* (a, c, d, e, h, i, l, n, o, p, r, s, t, v, y), ' ' and 'H'
Letters == {97, 99, 100, 101, 104, 105, 108, 110, 111, 112, 114, 115, 116, 118, 121, 32, 72}

\* the strings of at most n letters
Strings(n) == UNION {[1..k -> Letters] : k \in 0..n}

\* the partial inputs: short strings, the prefixes of the command names,
\* and the command names followed by up to MaxExtra letters
Partials ==
    Strings(MaxPartial)
    \cup UNION {{SubSeq(available_commands[i], 1, k) :
                     k \in 0..Len(available_commands[i])} :
                 i \in 1..num_available_commands}
    \cup {available_commands[i] \o extra :
              i \in 1..num_available_commands, extra \in Strings(MaxExtra)}

\* user_led after led_driver_init and any led commands with period 50, the
\* blink command given at tick 0
LedStates ==
    {led \in [initialized : {TRUE}, is_blinking : BOOLEAN, current_state : BOOLEAN,
              blink_period_ms : {0, 50}, next_toggle_time : {0, 50}] :
        /\ led.is_blinking => led.blink_period_ms # 0
        /\ led.next_toggle_time = led.blink_period_ms}

CliInit ==
    /\ cli_op = "none"
    /\ command_line = <<>>
    /\ completion_buffer = <<>>
    /\ tab_result = "none"
    /\ executed = <<>>
    /\ terminal = <<>>
    /\ user_led \in LedStates
    /\ led_pc = "idle"
    /\ seq_len \in SeqLens
    /\ buffer_size = 0
    /\ RingOff
    /\ TxOff
    /\ RxOff
    /\ ShellOff
    /\ HwOff

\* cli_parser_execute(shell, line)
Execute ==
    /\ cli_op = "none"
    /\ \E line \in Lines :
          LET r == cli_parser_execute_line(line, user_led) IN
          /\ command_line' = line
          /\ terminal' = shell_printf_all(terminal, r.calls, seq_len)
          /\ user_led' = r.led
    /\ cli_op' = "execute"
    /\ UNCHANGED <<completion_buffer, tab_result, executed, led_pc, seq_len, buffer_size,
                   ringVars, txVars, rxVars, shellVars, hwVars>>

\* the values HAL_GetTick() takes
LedTicks == {0, 60, 110}

\* a led command was the line executed.  The LED is followed after these
\* lines only: every other line leaves user_led as "led get_state" does.
LedLineRan ==
    /\ cli_op = "execute"
    /\ strtok_tokens(command_line) # <<>>
    /\ strtok_tokens(command_line)[1] = led_name

\* the SysTick interrupt has advanced the millisecond counter; the main loop
\* is past the command line or inside led_driver_task.  Followed while the
\* LED blinks: led_driver_task returns at once for any tick when it does not.
LedTimePasses ==
    /\ user_led.is_blinking
    /\ LedLineRan
    /\ tick' \in {t \in LedTicks : t > tick}
    /\ UNCHANGED <<cliVars, ringVars, txVars, rxVars, shellVars, portVars,
                   pl_variant, pl_pc, packet, last_rx_tick, delivered>>

\* led_driver_task(&user_led), called by the main loop after the command
\* line has run: return when not blinking or not yet due, else
\* led_driver_toggle
LedTaskToggle ==
    /\ LedLineRan
    /\ led_pc = "idle"
    /\ IF user_led.initialized /\ user_led.is_blinking /\ tick >= user_led.next_toggle_time
       THEN user_led' = led_driver_toggle(user_led) /\ led_pc' = "toggled"
       ELSE UNCHANGED <<user_led, led_pc>>
    /\ UNCHANGED <<cli_op, command_line, completion_buffer, tab_result, executed, terminal,
                   seq_len, buffer_size, ringVars, txVars, rxVars, shellVars, hwVars>>

\* ... next_toggle_time = led_driver_get_tick() + blink_period_ms, the
\* second reading of the counter
LedTaskRearm ==
    /\ led_pc = "toggled"
    /\ user_led' = [user_led EXCEPT !.next_toggle_time = tick + user_led.blink_period_ms]
    /\ led_pc' = "idle"
    /\ UNCHANGED <<cli_op, command_line, completion_buffer, tab_result, executed, terminal,
                   seq_len, buffer_size, ringVars, txVars, rxVars, shellVars, hwVars>>

\* sizes of a completion_buffer too short for some command name: one byte
\* and four
SmallSizes == {1, 4}

\* the prefixes of the command names, the names included
NamePrefixes ==
    UNION {{SubSeq(available_commands[i], 1, k) : k \in 0..Len(available_commands[i])} :
               i \in 1..num_available_commands}

\* cli_parser_handle_tab_completion(shell, partial, completion_buffer,
\* COMMAND_MAX_LENGTH + 1): the completion_buffer holds what the call writes
TabComplete ==
    /\ cli_op = "none"
    /\ \E partial \in Partials :
          LET r == cli_parser_handle_tab_completion(partial, completion_buffer,
                                                    COMMAND_MAX_LENGTH + 1, user_led)
          IN
          /\ completion_buffer_written(partial, COMMAND_MAX_LENGTH + 1)
                 <= COMMAND_MAX_LENGTH + 1
          /\ safe_input_written(partial) <= SAFE_INPUT_SIZE
          /\ command_line' = partial
          /\ completion_buffer' = r.completion_buffer
          /\ tab_result' = r.result
          /\ executed' = r.executed
          /\ terminal' = shell_printf_all(terminal, r.calls, seq_len)
          /\ user_led' = r.led
    /\ buffer_size' = COMMAND_MAX_LENGTH + 1
    /\ cli_op' = "tab"
    /\ UNCHANGED <<led_pc, seq_len, ringVars, txVars, rxVars, shellVars, hwVars>>

\* the values of tab_completion_result_t
tab_completion_result_t ==
    {TAB_COMPLETION_NO_MATCH, TAB_COMPLETION_SINGLE_MATCH, TAB_COMPLETION_HELP_SHOWN,
     TAB_COMPLETION_MULTIPLE_MATCHES}

\* the sequences left of s when some of its elements are taken out
RECURSIVE Remaining(_)
Remaining(s) ==
    IF s = <<>> THEN {<<>>}
    ELSE LET rest == Remaining(Tail(s)) IN rest \cup {<<Head(s)>> \o t : t \in rest}

\* the call on a prefix of a command name with a completion_buffer shorter
\* than what the call writes: strncpy and the store of the NUL take their
\* lengths from the strings, so the bytes past buffer_size are written
\* behind the caller's buffer.  What lies there is not the function's to
\* know, and the write is undefined behaviour.  The call is killed by the
\* write (cli_op "killed": nothing is returned, nothing printed), or it
\* goes on and returns: as with a buffer long enough when the memory behind
\* the buffer holds nothing in use; with another result code, with
\* partial_input left in completion_buffer, without a command line executed
\* or with some of its texts not sent when the bytes landed in the
\* partial input, in the caller's variables or in the shell.
TabOverrun ==
    /\ cli_op = "none"
    /\ \E partial \in NamePrefixes, size \in SmallSizes :
          LET r == cli_parser_handle_tab_completion(partial, completion_buffer,
                                                    size, user_led)
          IN
          /\ \/ completion_buffer_written(partial, size) > size
             \/ safe_input_written(partial) > SAFE_INPUT_SIZE
          /\ command_line' = partial
          /\ buffer_size' = size
          /\ \/ /\ cli_op' = "killed"
                /\ UNCHANGED <<completion_buffer, tab_result, executed, terminal, user_led>>
             \/ /\ cli_op' = "overrun"
                /\ completion_buffer' \in {r.completion_buffer, partial}
                /\ tab_result' \in tab_completion_result_t
                /\ executed' \in {r.executed, <<>>}
                /\ \E sent \in Remaining(r.calls) :
                       terminal' = shell_printf_all(terminal, sent, seq_len)
                /\ user_led' = r.led
    /\ UNCHANGED <<led_pc, seq_len, ringVars, txVars, rxVars, shellVars, hwVars>>

CliNext == Execute \/ TabComplete \/ TabOverrun \/ LedTimePasses \/ LedTaskToggle \/ LedTaskRearm

SpecCli == CliInit /\ [][CliNext]_vars

\* ---------------------------------------------------------------------
\* Claims about the command dispatcher
\* ---------------------------------------------------------------------

\* p is a prefix of s
IsPrefix(p, s) == Len(p) <= Len(s) /\ SubSeq(s, 1, Len(p)) = p

\* the command names
Names == {available_commands[i] : i \in 1..num_available_commands}

\* some command name is a prefix of partial
ExtendsName(partial) == \E name \in Names : IsPrefix(name, partial)

\* the command names that start with partial, in table order
Candidates(partial) ==
    LET Starts(name) == IsPrefix(partial, name) IN
    SelectSeq(available_commands, Starts)

\* the strings shell_printf printed with the format "%s " after the heading
\* of a list of options
Listed ==
    [k \in 1..(Len(terminal) - 2) |-> terminal[k + 1].arg]

\* C17: when partial is a proper prefix of exactly one command name and no
\* command name is a prefix of partial, the completion returns SingleMatch
\* and completion_buffer holds that command name (as for "ver", "version").
Thm_C17 ==
    (cli_op = "tab" /\ ~ExtendsName(command_line)
        /\ Len(Candidates(command_line)) = 1) =>
        /\ tab_result = TAB_COMPLETION_SINGLE_MATCH
        /\ completion_buffer = Candidates(command_line)[1]

\* C17 witness: "ver" was completed to "version"
Wit_C17 ==
    /\ cli_op = "tab"
    /\ command_line = SubSeq(version_name, 1, 3)
    /\ tab_result = TAB_COMPLETION_SINGLE_MATCH
    /\ completion_buffer = version_name

\* C18: when no command name is a prefix of partial, the completion returns
\* NoMatch if no command name starts with partial, SingleMatch if exactly
\* one does and MultipleMatches if two or more do, and then the names it
\* prints are the command names starting with partial, in table order.
Thm_C18 ==
    (cli_op = "tab" /\ ~ExtendsName(command_line)) =>
        LET n == Len(Candidates(command_line)) IN
        /\ n = 0 => tab_result = TAB_COMPLETION_NO_MATCH
        /\ n = 1 => tab_result = TAB_COMPLETION_SINGLE_MATCH
        /\ n >= 2 => (tab_result = TAB_COMPLETION_MULTIPLE_MATCHES
                         /\ Listed = Candidates(command_line))

\* C18 witness: "h" was completed and help and history were listed
Wit_C18 ==
    /\ cli_op = "tab"
    /\ command_line = <<104>>
    /\ tab_result = TAB_COMPLETION_MULTIPLE_MATCHES
    /\ Listed = <<help_name, history_name>>

\* C19: when some command name is a prefix of partial (partial is the name
\* or extends it), the completion returns HelpShown and has passed exactly
\* one line to cli_parser_execute, "<name> help" for the first such name in
\* table order.
Thm_C19 ==
    (cli_op = "tab" /\ ExtendsName(command_line)) =>
        LET Extended(name) == IsPrefix(name, command_line)
            name == SelectSeq(available_commands, Extended)[1]
        IN
        /\ tab_result = TAB_COMPLETION_HELP_SHOWN
        /\ executed = <<name \o <<32>> \o help_name>>

\* C19 witness: a command name followed by one more character was completed
Wit_C19 ==
    /\ cli_op = "tab"
    /\ \E name \in Names : IsPrefix(name, command_line) /\ Len(command_line) > Len(name)
    /\ tab_result = TAB_COMPLETION_HELP_SHOWN
    /\ Len(executed) = 1

\* the usage text of a command
UsageText(name) ==
    CASE name = help_name -> help_general_text
      [] name = clear_name -> help_clear_text
      [] name = history_name -> help_history_text
      [] name = version_name -> help_version_text
      [] name = led_name -> help_led_text

\* C20: for every command name of the table, the lines "help <name>" and
\* "<name> help" put that command's usage text on the terminal.
Cex_C20 ==
    \A name \in Names :
        (cli_op = "execute"
            /\ command_line \in {help_name \o <<32>> \o name, name \o <<32>> \o help_name}) =>
            (terminal # <<>> /\ \E k \in 1..Len(terminal) : terminal[k] = UsageText(name))

\* the tokens of the executed line
LineTokens == strtok_tokens(command_line)

\* C21: a line whose first token is help, clear, history or version and
\* which has more than one token after it prints the too-many-arguments
\* message and nothing else.
Cex_C21 ==
    (cli_op = "execute"
        /\ Len(LineTokens) > 2
        /\ LineTokens[1] \in {help_name, clear_name, history_name, version_name}) =>
        terminal = <<too_many_arguments>>

\* the two messages of cli_parser_execute for a first token that is no
\* command name
UnknownCommand(token) ==
    <<Fmt("Unknown command or argument: %s", 29, 1, 0, token),
      Fmt("Type 'help' for available commands.", 35, 1, 0, <<>>)>>

\* C22: when the first token of the executed line equals no command name
\* (as for another case or a proper prefix of a name), user_led and the
\* shell's history and browse position are as before the call and the
\* terminal receives the unknown-command message and the hint to type help;
\* when it equals a command name, it does not receive that message.
Cex_C22 ==
    [][(cli_op = "none" /\ cli_op' = "execute" /\ strtok_tokens(command_line') # <<>>) =>
          LET first == strtok_tokens(command_line')[1] IN
          IF first \notin Names
          THEN /\ user_led' = user_led
               /\ shell' = shell
               /\ terminal' = UnknownCommand(first)
          ELSE \A k \in 1..Len(terminal') :
                   terminal'[k].text # "Unknown command or argument: %s"]_vars

\* str without its leading '0' characters
RECURSIVE NoLeadingZeros(_)
NoLeadingZeros(str) ==
    IF str # <<>> /\ Head(str) = 48 THEN NoLeadingZeros(Tail(str)) ELSE str

\* the digits of a token that is a complete decimal integer (an optional
\* sign followed by one or more digits and nothing else), <<>> for any
\* other token
Digits(tok) ==
    LET body == IF tok # <<>> /\ tok[1] \in {43, 45} THEN Tail(tok) ELSE tok IN
    IF body # <<>> /\ \A i \in 1..Len(body) : body[i] \in 48..57 THEN body ELSE <<>>

\* the value of a digit string of at most five digits
RECURSIVE Value(_)
Value(digits) ==
    IF digits = <<>> THEN 0
    ELSE 10 * Value(SubSeq(digits, 1, Len(digits) - 1)) + (digits[Len(digits)] - 48)

\* tok is a complete decimal integer n with 1 <= n <= 10000
ValidPeriod(tok) ==
    /\ Digits(tok) # <<>>
    /\ tok[1] # 45
    /\ Len(NoLeadingZeros(Digits(tok))) \in 1..5
    /\ Value(NoLeadingZeros(Digits(tok))) \in 1..10000

\* C23: a line "led blink ..." with exactly one argument that is a complete
\* decimal integer n, 1 <= n <= 10000, leaves user_led blinking with period
\* n; any other "led blink ..." line (value out of range, other characters
\* in the argument, no argument, more arguments) leaves user_led as it was.
Thm_C23 ==
    [][(cli_op = "none" /\ cli_op' = "execute"
           /\ Len(strtok_tokens(command_line')) >= 2
           /\ strtok_tokens(command_line')[1] = led_name
           /\ strtok_tokens(command_line')[2] = blink_arg) =>
          LET argv == strtok_tokens(command_line') IN
          IF Len(argv) = 3 /\ ValidPeriod(argv[3])
          THEN /\ user_led'.is_blinking
               /\ user_led'.blink_period_ms = Value(NoLeadingZeros(Digits(argv[3])))
          ELSE user_led' = user_led]_vars

\* C23 witness: "led blink 10000" was executed and user_led blinks with
\* period 10000
Wit_C23 ==
    /\ cli_op = "execute"
    /\ command_line = Join(<<led_name, blink_arg, <<49, 48, 48, 48, 48>>>>)
    /\ user_led.is_blinking
    /\ user_led.blink_period_ms = 10000
    /\ Len(terminal) = 1

\* ---------------------------------------------------------------------
\* Transport life cycle specification: the functions of uart_driver.c
\* called in any order on one uart_driver_t in zeroed static storage, each
\* with valid or null arguments, and the ring functions called with a null
\* ring.  The calls come one after the other from the task;
\* uart_driver_send is stepped by its loads and stores of the fields the TX
\* complete interrupt writes, uart_driver_init on a transport in use by the
\* stores of its two ring_buffer_reset, and the two callbacks run between
\* any two of these steps.  After a fault nothing more happens.
\* ---------------------------------------------------------------------

\* the baud rates passed to uart_driver_reconfigure
Bauds == {0, 9600, 115200}

\* the uart_driver argument of a call: null or the address of port
Drivers == {"NULL", "port"}

\* the length argument of uart_driver_send: zero, and up to the bytes that
\* fill the TX ring (later calls overwrite what is still queued)
SendLengths == 0..TxCap

PortInit ==
    /\ port = uart_driver_zero
    /\ hal \in [BaudRate : Bauds \ {0}, initialised : {TRUE}, rx_armed : {FALSE},
                tx_active : {FALSE}]
    /\ port_call = [op |-> "none"]
    /\ port_ret = 0
    /\ hw_called = FALSE
    /\ port_send = NoSend
    /\ port_init = NoInit
    /\ fault = FALSE
    /\ RingOff
    /\ TxOff
    /\ RxOff
    /\ ShellOff
    /\ CliOff
    /\ PollOff

\* the call `call` with the outcome `out`; a callback that an interrupt
\* runs inside a uart_driver_send or uart_driver_init call leaves that call
\* the latest
PortCall(call, out) ==
    /\ IF port_send = NoSend /\ port_init = NoInit
       THEN port_call' = call /\ port_ret' = out.ret /\ hw_called' = out.called
       ELSE UNCHANGED <<port_call, port_ret, hw_called>>
    /\ port' = out.port
    /\ hal' = out.hal
    /\ fault' = out.fault
    /\ UNCHANGED <<port_send, port_init, ringVars, txVars, rxVars, shellVars, cliVars, pollVars>>

\* uart_driver_init is called.  It returns at its argument check, and a
\* null uart_driver is a fault in its first store.  While no receive is
\* armed and no transmit is running no interrupt comes before the call has
\* armed the receive, its last step: the call is taken at once.  Otherwise
\* the transport is in use, and the call is followed step by step
\* (PortInitStep) from its stores to huart, rx_callback and tx_busy: huart
\* and rx_callback get the values they hold, and no callback reads tx_busy
\* or stores another value than false to it, so these stores are one step.
PortInitCall ==
    /\ ~fault
    /\ port_send = NoSend
    /\ port_init = NoInit
    /\ \E drv \in Drivers, huart \in {"NULL", "huart"}, rx_callback \in {"NULL", "callback"} :
           LET call == [op |-> "init", drv |-> drv, huart |-> huart,
                        rx_callback |-> rx_callback]
           IN
           IF \/ huart = "NULL" \/ rx_callback = "NULL" \/ drv = "NULL"
              \/ ~(hal.rx_armed \/ hal.tx_active)
           THEN PortCall(call, uart_driver_init(drv, port, hal, huart, rx_callback))
           ELSE /\ port_init' = init_entered
                /\ port' = [port EXCEPT !.huart = huart, !.rx_callback = rx_callback,
                                        !.tx_busy = FALSE]
                /\ port_call' = call
                /\ port_ret' = 0
                /\ hw_called' = FALSE
                /\ UNCHANGED <<hal, fault, port_send, ringVars, txVars, rxVars, shellVars,
                               cliVars, pollVars>>

\* the uart_driver_init call in progress goes on by one store, or by
\* HAL_UART_Receive_IT and its return.  The RX complete and the TX complete
\* interrupt may come after any step; once neither a receive is armed nor a
\* transmit running, the steps up to the return are taken at once.
PortInitStep ==
    /\ ~fault
    /\ port_init # NoInit
    /\ \E field \in IF port_init.pending = {} THEN {"none"} ELSE port_init.pending :
           LET out == IF hal.rx_armed \/ hal.tx_active
                      THEN init_step(port_init, port, hal, field)
                      ELSE init_run(port_init, port, hal)
           IN
           /\ port_init' = out.f
           /\ port' = out.port
           /\ hal' = out.hal
           /\ hw_called' = out.called
    /\ UNCHANGED <<port_call, port_ret, port_send, fault, ringVars, txVars, rxVars, shellVars,
                   cliVars, pollVars>>

\* uart_driver_send is called.  It returns 0 at its argument check; a null
\* uart_driver or a TX ring without storage is a fault in the first
\* ring_buffer_push.  Otherwise the call is followed step by step
\* (PortSendStep) from its first ring_buffer_push.  The order of the loads
\* and stores is drawn for each call: the calls of one build all have the
\* order of that build.
PortSend ==
    /\ ~fault
    /\ port_send = NoSend
    /\ port_init = NoInit
    /\ \E drv \in Drivers, data \in {"NULL", "data"}, length \in SendLengths :
           LET call == [op |-> "send", drv |-> drv, data |-> data, length |-> length] IN
           IF data = "NULL" \/ length = 0 \/ drv = "NULL" \/ push_faults(port.ring_buffer_tx)
           THEN PortCall(call, uart_driver_send(drv, port, hal, data, length))
           ELSE /\ \E push \in IF hal.tx_active THEN PushOrders ELSE {NoSend.push} :
                       port_send' = send_entered(call, push)
                /\ port_call' = call
                /\ port_ret' = 0
                /\ hw_called' = FALSE
                /\ UNCHANGED <<port, hal, fault, port_init, ringVars, txVars, rxVars, shellVars,
                               cliVars, pollVars>>

\* the uart_driver_send call in progress goes on; when it returns it is the
\* latest call.  While a transmit is running, its TX complete interrupt may
\* come after any step.  While none is running no TX complete interrupt
\* comes before the call has started one with HAL_UART_Transmit_IT, its
\* last access to the transport, and the RX interrupt writes nothing that
\* uart_driver_send reads or writes: the steps up to the return are taken
\* at once.
PortSendStep ==
    /\ ~fault
    /\ port_send # NoSend
    /\ \E pop \in IF port_send.pc = "check_busy" /\ hal.tx_active
                    THEN PopOrders ELSE {port_send.pop} :
           LET out == IF hal.tx_active
                      THEN send_step(port_send, port, hal, pop)
                      ELSE send_run(port_send, port, hal)
           IN
           /\ port_send' = out.f
           /\ port' = out.port
           /\ hal' = out.hal
           /\ IF out.f = NoSend
              THEN /\ port_call' = port_send.call
                   /\ port_ret' = out.ret
                   /\ hw_called' = out.called
              ELSE UNCHANGED <<port_call, port_ret, hw_called>>
    /\ UNCHANGED <<fault, port_init, ringVars, txVars, rxVars, shellVars, cliVars, pollVars>>

\* uart_driver_reconfigure
PortReconfigure ==
    /\ ~fault
    /\ port_send = NoSend
    /\ port_init = NoInit
    /\ \E drv \in Drivers, baud_rate \in Bauds, deinit_ok \in BOOLEAN, init_ok \in BOOLEAN :
           PortCall([op |-> "reconfigure", drv |-> drv, baud_rate |-> baud_rate],
                    uart_driver_reconfigure(drv, port, hal, baud_rate, deinit_ok, init_ok))

\* uart_driver_rx_it_callback: from the interrupt of the armed receive, which
\* is over then, or called by the task without a transport, which leaves
\* the peripheral as it is
PortRxCplt ==
    \E drv \in Drivers :
        LET by_task == drv = "NULL" \/ port.huart = "NULL" IN
        /\ ~fault
        /\ by_task => port_send = NoSend /\ port_init = NoInit
        /\ ~by_task => hal.rx_armed
        /\ PortCall([op |-> "rx_it_callback", drv |-> drv],
                    uart_driver_rx_it_callback(
                        drv, port, IF by_task THEN hal ELSE [hal EXCEPT !.rx_armed = FALSE]))

\* uart_driver_tx_it_callback: from the interrupt of the running transmit,
\* which is over then, or called by the task without a transport, which
\* leaves the peripheral as it is
PortTxCplt ==
    \E drv \in Drivers :
        LET by_task == drv = "NULL" \/ port.huart = "NULL" IN
        /\ ~fault
        /\ by_task => port_send = NoSend /\ port_init = NoInit
        /\ ~by_task => hal.tx_active
        /\ PortCall([op |-> "tx_it_callback", drv |-> drv],
                    tx_it_callback(
                        drv, port, IF by_task THEN hal ELSE [hal EXCEPT !.tx_active = FALSE]))

\* a ring function called with rb == NULL (ring_buffer_init: with buf ==
\* NULL or size == 0)
PortRing ==
    /\ ~fault
    /\ port_send = NoSend
    /\ port_init = NoInit
    /\ \E function \in {"ring_buffer_init", "ring_buffer_push", "ring_buffer_pop",
                        "ring_buffer_is_empty", "ring_buffer_is_full", "ring_buffer_reset",
                        "ring_buffer_get_capacity", "ring_buffer_get_count"} :
           PortCall([op |-> function, drv |-> "NULL"],
                    Outcome(port, hal, ring_buffer_null(function), FALSE, FALSE))

PortNext ==
    \/ PortInitCall
    \/ PortInitStep
    \/ PortSend
    \/ PortSendStep
    \/ PortReconfigure
    \/ PortRxCplt
    \/ PortTxCplt
    \/ PortRing

SpecPort == PortInit /\ [][PortNext]_vars

\* ---------------------------------------------------------------------
\* Claims about the transport life cycle
\* ---------------------------------------------------------------------

\* C24: a uart_driver_reconfigure call that returns false on a transport
\* whose peripheral is initialised with a receive armed leaves the baud
\* rate as it was, the peripheral initialised and the receive armed; a call
\* with a null transport, a null handle or a zero rate makes no HAL call.
Cex_C24 ==
    [][(PortReconfigure /\ port_ret' = 0) =>
          /\ (hal.initialised /\ hal.rx_armed) =>
                 /\ hal'.BaudRate = hal.BaudRate
                 /\ hal'.initialised
                 /\ hal'.rx_armed
          /\ (port_call'.drv = "NULL" \/ port.huart = "NULL" \/ port_call'.baud_rate = 0) =>
                 ~hw_called']_vars

\* the latest call had a null pointer, a zero length or a zero baud rate
\* among its arguments
DegenerateCall ==
    \/ port_call.op \in {"init", "send", "reconfigure", "rx_it_callback", "tx_it_callback"}
          /\ port_call.drv = "NULL"
    \/ port_call.op = "init"
          /\ (port_call.huart = "NULL" \/ port_call.rx_callback = "NULL")
    \/ port_call.op = "send" /\ (port_call.data = "NULL" \/ port_call.length = 0)
    \/ port_call.op = "reconfigure" /\ port_call.baud_rate = 0
    \/ port_call.op \notin {"none", "init", "send", "reconfigure", "rx_it_callback",
                            "tx_it_callback"}

\* C25: a call with a null pointer, a zero length or a zero baud rate, or a
\* call on a transport whose init was rejected, does not fault and returns
\* 0, false or nothing.
Cex_C25 ==
    (port_call.op # "none" /\ (DegenerateCall \/ port.huart = "NULL")) =>
        (~fault /\ port_ret = 0)

\* ---------------------------------------------------------------------
\* Packet assembly specification: the task calls the poll function of the
\* transport (uart_driver_poll or uart_shell_poll) from time to time, and
\* between any two of its steps the RX interrupt pushes a byte ('\r', '\n'
\* or 'A') or the SysTick interrupt advances the tick counter.  The steps of
\* the poll function are the test before its loop, the steps of the
\* ring_buffer_pop of the loop condition (PollPop) and the loop body.
\* ---------------------------------------------------------------------

\* the bytes that arrive
PollBytes == {13, 10, 65}

\* the handle an RX complete callback is called for: the one the transport
\* was initialised with, none, or (HAL_UART_RxCpltCallback) the handle of
\* another peripheral
Handles == {"huart", "NULL", "other"}

PollInit ==
    /\ pl_variant \in {"uart_driver", "uart_shell"}
    /\ pl_pc = "idle"
    /\ packet = <<>>
    /\ last_rx_tick = 0
    /\ tick = 0
    /\ delivered = <<>>
    /\ rx = ring_buffer_init(zeroed(RxCap), RxCap)
    /\ r_pc = "idle"
    /\ r_data = 0
    /\ r_popped = <<>>
    /\ rx_n = 0
    /\ unread = <<>>
    /\ r_expect = 0
    /\ r_missed = 0
    /\ r_head = 0
    /\ r_tail = 0
    /\ r_had = 0
    /\ r_build \in PopOrders
    /\ RingOff
    /\ TxOff
    /\ ShellOff
    /\ CliOff
    /\ PortOff

\* uart_driver_rx_it_callback(uart_driver) and HAL_UART_RxCpltCallback(huart)
\* of uart_shell.c: return for a null argument (the transport's own huart is
\* set) or for the handle of another peripheral, else ring_buffer_push of
\* the received byte, which overwrites the oldest byte of a full ring, and
\* HAL_UART_Receive_IT.  It runs to completion between two steps of the task.
\* rx_n counts the bytes pushed; the reference queue of the receive-side
\* specification (unread) is not kept here.
PollReceive ==
    /\ rx_n < MaxSeen
    /\ \E handle \in Handles, byte \in PollBytes :
        /\ handle = "other" => pl_variant = "uart_shell"
        /\ IF handle = "huart"
           THEN rx' = ring_buffer_push(rx, byte) /\ rx_n' = rx_n + 1
           ELSE UNCHANGED <<rx, rx_n>>
    /\ UNCHANGED <<r_pc, r_data, r_popped, unread, r_expect, r_missed, r_head, r_tail,
                   r_had, r_build, pollVars, ringVars, txVars, shellVars, cliVars,
                   portVars>>

\* a millisecond passes
PollTick ==
    /\ tick < MaxTick
    /\ tick' = tick + 1
    /\ UNCHANGED <<pl_variant, pl_pc, packet, last_rx_tick, delivered,
                   ringVars, txVars, rxVars, shellVars, cliVars, portVars>>

\* uart_driver_poll is called: the test of line 111, which reads
\* HAL_GetTick(), and on to the loop
DriverPoll ==
    /\ pl_variant = "uart_driver"
    /\ pl_pc = "idle"
    /\ packet' = poll_timeout([packet |-> packet, delivered |-> delivered],
                              last_rx_tick, tick).packet
    /\ pl_pc' = "loop"
    /\ UNCHANGED <<pl_variant, last_rx_tick, tick, delivered,
                   ringVars, txVars, rxVars, shellVars, cliVars, portVars>>

\* uart_shell_poll is called: on to the loop
ShellPoll ==
    /\ pl_variant = "uart_shell"
    /\ pl_pc = "idle"
    /\ pl_pc' = "loop"
    /\ UNCHANGED <<pl_variant, packet, last_rx_tick, tick, delivered,
                   ringVars, txVars, rxVars, shellVars, cliVars, portVars>>

\* the byte the latest ring_buffer_pop returned
PoppedByte == r_popped[Len(r_popped)]

\* the loop body of uart_driver_poll: last_rx_tick = HAL_GetTick(), read
\* anew for every byte, then the byte is added to the packet; back to the
\* loop condition
DriverPollByte ==
    /\ pl_variant = "uart_driver"
    /\ pl_pc = "body"
    /\ last_rx_tick' = tick
    /\ LET st == uart_driver_poll_byte([packet |-> packet, delivered |-> delivered],
                                       PoppedByte)
       IN packet' = st.packet /\ delivered' = st.delivered
    /\ pl_pc' = "loop"
    /\ UNCHANGED <<pl_variant, tick, ringVars, txVars, rxVars, shellVars, cliVars, portVars>>

\* the loop body of uart_shell_poll, the byte having been popped into
\* packet[packet_len]; back to the loop condition
ShellPollByte ==
    /\ pl_variant = "uart_shell"
    /\ pl_pc = "body"
    /\ LET st == uart_shell_poll_byte([packet |-> packet, delivered |-> delivered],
                                      PoppedByte)
       IN packet' = st.packet /\ delivered' = st.delivered
    /\ pl_pc' = "loop"
    /\ UNCHANGED <<pl_variant, last_rx_tick, tick, ringVars, txVars, rxVars, shellVars,
                   cliVars, portVars>>

PollNext ==
    \/ PollReceive
    \/ PollTick
    \/ DriverPoll
    \/ ShellPoll
    \/ PollPop
    \/ DriverPollByte
    \/ ShellPollByte

SpecPoll == PollInit /\ [][PollNext]_vars

\* ---------------------------------------------------------------------
\* Claims about the packet assembly
\* ---------------------------------------------------------------------

\* the static state after the loop body of the variant has run on each of
\* `bytes` in turn, whatever the tick counter was
RECURSIVE Assembled(_, _, _)
Assembled(variant, st, bytes) ==
    IF bytes = <<>> THEN st
    ELSE Assembled(variant, poll_byte(variant, st, Head(bytes)), Tail(bytes))

\* the bytes the loop body has run on: every byte popped, but the latest
\* while the body is still to run on it
Seen ==
    IF pl_pc = "body" THEN SubSeq(r_popped, 1, Len(r_popped) - 1) ELSE r_popped

\* C26: in both poll variants the bytes accumulated for the incomplete
\* line are a function of the bytes popped so far alone: they are what the
\* loop body leaves after these bytes, at every value of the tick counter.
Cex_C26 ==
    packet = Assembled(pl_variant, [packet |-> <<>>, delivered |-> <<>>], Seen).packet

\* ---------------------------------------------------------------------
\* Claims about the parser states and the keys of the line editor
\* ---------------------------------------------------------------------

\* received bytes of every kind shell_task tells apart: the bytes it names
\* ('\r', DEL, BS, ESC, '[', 'A', 'B', 'C', 'D'), the two ends of the
\* printable range and their neighbours (31, 32, 126), TAB, 0 and two
\* bytes above 127
KeyBytes == {13, 127, 8, 27, 91, 65, 66, 67, 68, 31, 32, 126, 9, 0, 128, 255}

\* C27: with the parser in STATE_ESC the byte '[' moves it to STATE_CSI and
\* any other byte moves it to STATE_NORMAL, neither changing the shell
\* record; with the parser in STATE_CSI any byte moves it to STATE_NORMAL;
\* so the parser is in STATE_NORMAL after the first or after the second
\* byte that follows the ESC which took it out of STATE_NORMAL.
Thm_C27 ==
    /\ parsing_state = STATE_ESC =>
          \A b \in KeyBytes :
              LET r == shell_task(shell, parsing_state, b) IN
              /\ r.sh = shell
              /\ r.ps = IF b = 91 THEN STATE_CSI ELSE STATE_NORMAL
              /\ \A b2 \in KeyBytes : r.ps = STATE_NORMAL
                     \/ shell_task(r.sh, r.ps, b2).ps = STATE_NORMAL
    /\ parsing_state = STATE_CSI =>
          \A b \in KeyBytes : shell_task(shell, parsing_state, b).ps = STATE_NORMAL

\* C27 witness: the parser is in STATE_ESC with a line as long as a line
\* can be when ESC is accepted, and some command is stored
Wit_C27 ==
    /\ parsing_state = STATE_ESC
    /\ shell.length = SHELL_MAX_LENGTH - 2
    /\ shell.count > 0

\* the line without the character before position p (p >= 1)
Without(line, p) == SubSeq(line, 1, p - 1) \o SubSeq(line, p + 1, Len(line))

\* C28: in STATE_NORMAL each of the bytes 127 and 8 removes the character
\* before the cursor when cursor_pos > 0 (length and cursor_pos one less,
\* the tail moved left) and changes nothing when cursor_pos = 0, and the
\* two bytes leave the same buffer, length and cursor_pos.
Cex_C28 ==
    parsing_state = STATE_NORMAL =>
        LET del == shell_task(shell, parsing_state, 127).sh
            bs == shell_task(shell, parsing_state, 8).sh
            Erased(r) ==
                IF shell.cursor_pos > 0
                THEN /\ Line(r) = Without(Line(shell), shell.cursor_pos)
                     /\ r.length = shell.length - 1
                     /\ r.cursor_pos = shell.cursor_pos - 1
                ELSE r = shell
        IN
        /\ Erased(del)
        /\ Erased(bs)
        /\ bs.buffer = del.buffer
        /\ bs.length = del.length
        /\ bs.cursor_pos = del.cursor_pos

\* sh with cursor_pos set to p
CursorAt(sh, p) == [sh EXCEPT !.cursor_pos = p]

\* C29: in STATE_NORMAL, whatever the line and its length, the bytes
\* ESC [ D move the cursor one to the left when cursor_pos > 0, the bytes
\* ESC [ C move it one to the right when cursor_pos < length, and nothing
\* else of the shell record (buffer, length, history) changes.
Cex_C29 ==
    parsing_state = STATE_NORMAL =>
        LET left == shell_task_run(shell, parsing_state, <<27, 91, 68>>)
            right == shell_task_run(shell, parsing_state, <<27, 91, 67>>)
        IN
        /\ left.sh = CursorAt(shell, IF shell.cursor_pos > 0 THEN shell.cursor_pos - 1
                                     ELSE shell.cursor_pos)
        /\ right.sh = CursorAt(shell, IF shell.cursor_pos < shell.length
                                      THEN shell.cursor_pos + 1 ELSE shell.cursor_pos)

\* the characters buffer[0 .. length - 1] of the edit line
Chars(sh) == [i \in 1..sh.length |-> sh.buffer[i - 1]]

\* printable bytes: the two ends of the range 32..126 and a digit, a
\* capital and a small letter from inside it
Printables == {32, 48, 65, 97, 126}

\* C30: in STATE_NORMAL with length < SHELL_MAX_LENGTH - 1, a printable
\* byte c received with the cursor at p makes the line b[0..p) c b[p..length),
\* adds one to length and to cursor_pos, leaves a NUL at buffer[length] and
\* leaves the history (commands, current_index, count, browse_index) alone.
Thm_C30 ==
    (parsing_state = STATE_NORMAL /\ shell.length < SHELL_MAX_LENGTH - 1) =>
        \A c \in Printables :
            LET r == shell_task(shell, parsing_state, c)
                p == shell.cursor_pos
                b == Chars(shell)
            IN
            /\ r.ps = STATE_NORMAL
            /\ Chars(r.sh) = SubSeq(b, 1, p) \o <<c>> \o SubSeq(b, p + 1, shell.length)
            /\ r.sh.length = shell.length + 1
            /\ r.sh.cursor_pos = p + 1
            /\ r.sh.buffer[r.sh.length] = 0
            /\ r.sh.commands = shell.commands
            /\ r.sh.current_index = shell.current_index
            /\ r.sh.count = shell.count
            /\ r.sh.browse_index = shell.browse_index

\* C30 witness: the line is " A" with the cursor between its two
\* characters, as after 'A', cursor left and ' ', and one more character
\* fits
Wit_C30 ==
    /\ parsing_state = STATE_NORMAL
    /\ Chars(shell) = <<32, 65>>
    /\ shell.cursor_pos = 1
    /\ shell.length < SHELL_MAX_LENGTH - 1

\* ---------------------------------------------------------------------
\* Claims about the history and the start of a line
\* ---------------------------------------------------------------------

\* handle_cursor_up returns at one of its two checks
UpRefused(sh) ==
    \/ sh.count = 0
    \/ /\ ((sh.browse_index - 1) + SHELL_HISTORY_SIZE) % SHELL_HISTORY_SIZE
              = (IF sh.count < SHELL_HISTORY_SIZE THEN 0 ELSE sh.current_index)
       /\ sh.browse_index # sh.current_index

\* handle_cursor_down returns at its check
DownRefused(sh) == sh.count = 0

\* the edit line of r shows the history entry at browse_index, or is empty
\* with browse_index at current_index, and the cursor is at its end
ShowsBrowsed(r) ==
    /\ \/ Line(r) = CStr(r.commands[r.browse_index])
       \/ r.browse_index = r.current_index /\ Line(r) = <<>>
    /\ r.length = strlen(r.buffer)
    /\ r.cursor_pos = r.length

\* C32: after ESC [ A or ESC [ B that is not refused, the edit line is the
\* history entry at browse_index, or empty when browse_index equals
\* current_index, with cursor_pos = length, whatever the line was before.
Thm_C32 ==
    parsing_state = STATE_CSI =>
        /\ ~UpRefused(shell) => ShowsBrowsed(shell_task(shell, parsing_state, 65).sh)
        /\ ~DownRefused(shell) => ShowsBrowsed(shell_task(shell, parsing_state, 66).sh)

\* C32 witness: ESC [ arrives on a line that holds text other than the
\* entry the next Up or Down recalls, with commands stored, the browse
\* position inside the history and neither key refused
Wit_C32 ==
    /\ parsing_state = STATE_CSI
    /\ shell.count = SHELL_HISTORY_SIZE
    /\ shell.browse_index # shell.current_index
    /\ ~UpRefused(shell)
    /\ shell.length > 0
    /\ Line(shell) # Line(shell_task(shell, parsing_state, 65).sh)
    /\ Line(shell) # Line(shell_task(shell, parsing_state, 66).sh)

\* C33: in every reachable state count <= SHELL_HISTORY_SIZE, current_index (the
\* write index) and browse_index lie in 0..SHELL_HISTORY_SIZE-1, and count is the
\* smaller of SHELL_HISTORY_SIZE and the number of lines appended so far; ref_hist
\* holds the appended lines, the oldest dropped beyond SHELL_HISTORY_SIZE
Thm_C33 ==
    /\ shell.count <= SHELL_HISTORY_SIZE
    /\ shell.current_index \in 0..(SHELL_HISTORY_SIZE - 1)
    /\ shell.browse_index \in 0..(SHELL_HISTORY_SIZE - 1)
    /\ shell.count = Len(ref_hist)
    /\ ref_wrapped => shell.count = SHELL_HISTORY_SIZE

\* more lines than SHELL_HISTORY_SIZE were appended and an older entry is browsed
Wit_C33 ==
    /\ ref_wrapped
    /\ shell.count = SHELL_HISTORY_SIZE
    /\ shell.browse_index # shell.current_index
    /\ shell.current_index # 0

\* C34: whenever the overflow branch of shell_task is taken for a byte, the
\* parser is in STATE_NORMAL before the byte and after it; a line of
\* SHELL_MAX_LENGTH - 1 characters is never held with the parser in STATE_ESC
\* or STATE_CSI, so the branch, which leaves parsing_state as it is, never
\* leaves it in one of the two
Thm_C34 ==
    /\ parsing_state # STATE_NORMAL => shell.length < SHELL_MAX_LENGTH - 1
    /\ \A b \in KeyBytes :
           overflow(shell, b) =>
               /\ parsing_state = STATE_NORMAL
               /\ shell_task(shell, parsing_state, b).ps = STATE_NORMAL
               /\ shell_task(shell, parsing_state, b).sh.length = 0

\* C34 witness: a full line loaded from the history, on which ESC, '[' and
\* a printable byte each take the overflow branch
Wit_C34 ==
    /\ shell.length = SHELL_MAX_LENGTH - 1
    /\ shell.browse_index # shell.current_index
    /\ Line(shell) = CStr(shell.commands[shell.browse_index])
    /\ overflow(shell, 27) /\ overflow(shell, 91) /\ overflow(shell, 65)
    /\ parsing_state = STATE_NORMAL

\* the bytes after which a new line starts: Enter, and a byte that takes the
\* overflow branch
StartsLine(sh, b) == b = 13 \/ overflow(sh, b)

\* C39: in STATE_NORMAL, after Enter and after a byte that takes the overflow
\* branch the line is empty and browse_index equals current_index (the write
\* index), so that with a command stored the Up key then shows the most
\* recently stored command
Cex_C39 ==
    parsing_state = STATE_NORMAL =>
        \A b \in KeyBytes :
            StartsLine(shell, b) =>
                LET r == shell_task(shell, parsing_state, b) IN
                /\ r.sh.length = 0
                /\ r.sh.browse_index = r.sh.current_index
                /\ r.sh.count > 0 =>
                       Line(shell_task_run(r.sh, r.ps, <<27, 91, 65>>).sh) = LastStored(r.sh)

\* the space-separated tokens of line: the maximal runs of characters other
\* than ' ', in order; a run starts at a character that is not ' ' and is
\* the first of the line or follows a ' '
SpaceTokens(line) ==
    LET n == Len(line)
        starts == CHOOSE set \in {{i \in 1..n : line[i] # 32 /\ (i = 1 \/ line[i - 1] = 32)}} :
                      TRUE
        start(k) == CHOOSE i \in starts : Cardinality({j \in starts : j < i}) = k - 1
        end(i) == CHOOSE j \in i..n :
                      /\ j = n \/ line[j + 1] = 32
                      /\ \A m \in i..j : line[m] # 32
    IN [k \in 1..Cardinality(starts) |-> SubSeq(line, start(k), end(start(k)))]

\* the first CLI_MAX_ARGS of the sequence words
FirstK(words) ==
    SubSeq(words, 1, IF Len(words) < CLI_MAX_ARGS THEN Len(words) ELSE CLI_MAX_ARGS)

\* C35: cli_parser_execute hands its handler at most CLI_MAX_ARGS arguments,
\* the first CLI_MAX_ARGS space-separated tokens of the line in order; the
\* tokens after them cause no output, the call printing and doing what it
\* does for the first CLI_MAX_ARGS tokens alone; a line with no token
\* prints nothing and changes nothing
Thm_C35 ==
    [][(cli_op = "none" /\ cli_op' = "execute") =>
          \A words \in {SpaceTokens(command_line')}, argv \in {strtok_argv(command_line')} :
              /\ Len(argv) <= CLI_MAX_ARGS
              /\ argv = FirstK(words)
              /\ IF Len(words) = 0
                 THEN terminal' = terminal /\ user_led' = user_led
                 ELSE \A first \in {Join(FirstK(words))} :
                          \A r \in {cli_parser_execute_line(first, user_led)} :
                              /\ terminal' = shell_printf_all(terminal, r.calls, seq_len)
                              /\ user_led' = r.led]_vars

\* C35 witness: "led blink 50" followed by four more tokens was executed
\* and the led blinks
Wit_C35 ==
    /\ cli_op = "execute"
    /\ Len(SpaceTokens(command_line)) = 7
    /\ FirstK(SpaceTokens(command_line)) = <<led_name, blink_arg, <<53, 48>>, <<120>>, <<53, 48>>>>
    /\ terminal # <<>>

\* C40: a completion call with buffer_size >= 1 writes at most buffer_size
\* bytes, the NUL included, into completion_buffer and at most
\* sizeof(safe_input) bytes into safe_input
Cex_C40 ==
    (cli_op \in {"tab", "overrun"} /\ buffer_size >= 1) =>
        /\ completion_buffer_written(command_line, buffer_size) <= buffer_size
        /\ safe_input_written(command_line) <= SAFE_INPUT_SIZE

\* the bytes p end with "\r\n"
EndsCrLf(p) == Len(p) >= 2 /\ p[Len(p) - 1] = 13 /\ p[Len(p)] = 10

\* the bytes p hold a "\r\n" before their last two bytes
EarlierCrLf(p) == \E i \in 1..(Len(p) - 3) : p[i] = 13 /\ p[i + 1] = 10

\* C36: in uart_driver_poll a popped byte that makes the accumulated bytes
\* end with "\r\n" hands exactly these bytes to the RX callback and leaves
\* the accumulator empty; no packet handed over holds a "\r\n" before its
\* last two bytes; packet_len never exceeds the size of packet
Cex_C36 ==
    pl_variant = "uart_driver" =>
        /\ Len(packet) <= PacketCap
        /\ \A k \in 1..Len(delivered) : ~EarlierCrLf(delivered[k])
        /\ \A byte \in PollBytes :
               LET p == Append(packet, byte)
                   r == uart_driver_poll_byte([packet |-> packet, delivered |-> delivered],
                                              byte)
               IN
               (Len(packet) < PacketCap /\ EndsCrLf(p)) =>
                   (r.delivered = Append(delivered, p) /\ r.packet = <<>>)

\* ---------------------------------------------------------------------
\* Claims about the transmit flag and the queued output
\* ---------------------------------------------------------------------

\* C37: between calls tx_busy is set only while a transmit is running in
\* the peripheral, whose completion interrupt is still to come; this holds
\* after uart_driver_reconfigure too, so that a send after a reconfigure
\* that returned true starts a transmit
Cex_C37 ==
    /\ (port_send = NoSend /\ port.tx_busy) => hal.tx_active
    /\ (port_call.op = "reconfigure" /\ port_ret = 1) =>
           LET out == uart_driver_send("port", port, hal, "data", 1) IN
           out.called /\ out.hal.tx_active

\* the bytes queued in the ring, from tail to head
Queued(ring) ==
    {ring.buffer[(ring.tail + i) % ring.capacity] :
         i \in 0..(ring_buffer_get_count(ring) - 1)}

\* C38: at any pace of the TX complete interrupts no byte passed to send is
\* overwritten in the TX ring before it is handed to the hardware: once send
\* has returned, each byte passed so far (they are numbered 1, 2, .. in
\* send order) has been handed to the hardware or is queued in the ring,
\* and the bytes handed so far are 1, 2, .. in this order with none left out
Cex_C38 ==
    /\ t_pc = "idle" =>
           \A id \in 1..(nextId - 1) : id \in Range(handed) \/ id \in Queued(tx)
    /\ \A i \in DOMAIN handed : handed[i] = i

\* ---------------------------------------------------------------------
\* Claims about the terminal
\* ---------------------------------------------------------------------

\* C31: with every sent byte reaching the terminal, after each insert,
\* backspace, cursor left, cursor right, history previous and history next
\* (and after any other key) the cells of the terminal row after the prompt
\* hold the characters of the edit line, the cells behind them are blank,
\* and the terminal cursor is in column cursor_pos
Thm_C31 ==
    /\ screen.col = shell.cursor_pos
    /\ \A i \in BufIdx :
           screen.row[i] = IF i < shell.length THEN shell.buffer[i] ELSE 32

\* C31 witness: a history entry was recalled over a typed line and a
\* character erased from inside it, the cursor standing inside the line
Wit_C31 ==
    /\ shell.count >= 1
    /\ shell.browse_index # shell.current_index
    /\ shell.length >= 1
    /\ shell.length < strlen(shell.commands[shell.browse_index])
    /\ shell.cursor_pos < shell.length
    /\ \E i \in 0..(shell.length - 1) : shell.buffer[i] = 32

====
